---------------------------- MODULE Spec2Model ----------------------------
(***************************************************************************)
(* The recommendation-scoring pipeline of tangenai:                        *)
(*   - the cache store (storeCache / getCache over AsyncStorage),          *)
(*   - the orchestrator getStockRecommendation in its three revisions,     *)
(*   - the submit handler that calls it in batches.                        *)
(*                                                                         *)
(* A time is a number of milliseconds.  Every other number is an exact    *)
(* fraction n/d in lowest terms, so the arithmetic of the scoring is the   *)
(* arithmetic of the source without its floating-point error.  A text is   *)
(* the sequence of its words; where the source measures characters the     *)
(* words are joined by single spaces.                                      *)
(***************************************************************************)
EXTENDS Integers, Sequences, FiniteSets, TLC

VARIABLES
  storage,   \* AsyncStorage: cache key -> the raw item stored under it
  now,       \* Date.now()
  ticks,     \* clock advances so far
  sfaults,   \* storage calls that have been made to fail so far
  calls,     \* per caller: the getCache / storeCache call it is in
  env,       \* the build and its configuration: which revision, which keys
  call,      \* the getStockRecommendation call in progress, or the last one
  ui,        \* the submit handler: its locals and what it showed
  faults,    \* provider requests that have been made to fail so far
  fetches    \* the adapter and analyzer calls made so far, in the order they began

cacheVars == <<storage, now, ticks, sfaults, calls>>

orchVars == <<env, call, ui, faults, fetches>>

vars == <<storage, now, ticks, sfaults, calls, env, call, ui, faults, fetches>>

-----------------------------------------------------------------------------
(* Bounds of the model *)

MaxTicks == 2           \* clock advances in one behaviour
MaxStorageFaults == 1   \* storage calls that may fail in one behaviour

-----------------------------------------------------------------------------
(* Values *)

NULL == "null"             \* JavaScript null
UNDEFINED == "undefined"   \* JavaScript undefined

CACHE_TTL == 5 * 60 * 1000

Callers == {"a", "b"}   \* concurrent callers of the cache store
CacheKeys == {"cache_news_1"}
CacheData == {"d1", "d2"}

(* What AsyncStorage holds under a key: nothing, or a string.  A string is  *)
(* the empty string, a text that is not JSON, or the JSON text of a value.  *)
Absent == [kind |-> "absent"]
Malformed == [kind |-> "malformed"]
JsonText(v) == [kind |-> "json", value |-> v]

JsonNull == [t |-> "null"]
Entry(d, ts) == [t |-> "object", data |-> d, timestamp |-> ts]
NoTimestamp(d) == [t |-> "object", data |-> d]
NoFields == [t |-> "object"]

(* Items this program did not write: the store is durable and is read      *)
(* through a try/catch, so a read may find any of them.                     *)
ForeignItems ==
  {[kind |-> "empty"], Malformed, JsonText(JsonNull), JsonText(NoFields)}
    \cup {JsonText(NoTimestamp(d)) : d \in CacheData}

(* JSON.stringify({data, timestamp}) and JSON.parse *)
JSONstringify(d, ts) == JsonText(Entry(d, ts))
JSONparse(raw) == raw.value

(* !cached: getItem resolved to null or to the empty string *)
Falsy(raw) == raw.kind \in {"absent", "empty"}

(* const { data, timestamp } = parsed: throws on null, yields undefined    *)
(* for a field the value does not have                                      *)
FieldData(v) == IF "data" \in DOMAIN v THEN v.data ELSE UNDEFINED
HasTimestamp(v) == "timestamp" \in DOMAIN v

IsExpired_AtTTL(t, v) == HasTimestamp(v) /\ t - v.timestamp >= CACHE_TTL

(* Date.now() - timestamp > CACHE_TTL; with timestamp undefined the        *)
(* difference is NaN and the comparison is false                            *)
IsExpired(t, v) == HasTimestamp(v) /\ t - v.timestamp > CACHE_TTL


-----------------------------------------------------------------------------
(* The cache store: storeCache and getCache.  Each await is a step of its  *)
(* own, so other callers and the clock may run between the steps of one    *)
(* call.                                                                   *)

THROWN == "thrown"   \* the promise of the call rejected

(* A caller's call: its locals while it runs; when it has returned, the    *)
(* value it resolved to and the branch it took.                            *)
NoCall ==
  [op |-> "none", pc |-> "done", key |-> "", data |-> "", ts |-> 0,
   cached |-> Absent, result |-> UNDEFINED, path |-> "none"]

Returned(c, v, path) ==
  [NoCall EXCEPT !.op = c.op, !.key = c.key, !.result = v, !.path = path]

(* The body of getCache's try block between the two awaits: what it does   *)
(* with the item getItem resolved to, at time t.                           *)
(* JSON.parse throws on a text that is not JSON, and the destructuring    *)
(* throws on null.                                                         *)
GetCacheBody(raw, t) ==
  IF Falsy(raw) THEN [do |-> "return", value |-> NULL, path |-> "miss"]
  ELSE IF raw.kind # "json" THEN [do |-> "throw", value |-> THROWN, path |-> "parse-error"]
  ELSE IF JSONparse(raw).t = "null"
         THEN [do |-> "throw", value |-> THROWN, path |-> "parse-error"]
  ELSE IF IsExpired(t, JSONparse(raw))
         THEN [do |-> "remove", value |-> NULL, path |-> "expired"]
  ELSE [do |-> "return", value |-> FieldData(JSONparse(raw)), path |-> "hit"]

GetCacheCatch_Rethrow(thrown) == thrown

(* catch (error) { console.error(...); return null; } *)
GetCacheCatch(thrown) == NULL

(* storeCache's catch only logs: the call resolves to undefined *)
StoreCacheCatch(thrown) == UNDEFINED

(* AsyncStorage.setItem(key, text) and AsyncStorage.removeItem(key) *)
SetItem(st, k, raw) == [st EXCEPT ![k] = raw]

RemoveItem_Skipped(st, k) == st

RemoveItem(st, k) == [st EXCEPT ![k] = Absent]

(* const getCache = async (key) => { try { ... getItem(key) *)
GetCacheCall(p, k) ==
  /\ calls[p].pc = "done"
  /\ calls' = [calls EXCEPT ![p] = [NoCall EXCEPT !.op = "getCache", !.pc = "getItem",
                                                   !.key = k]]
  /\ UNCHANGED <<storage, now, ticks, sfaults>> /\ UNCHANGED orchVars

(* await AsyncStorage.getItem(key) resolves *)
GetItemResolves(p) ==
  /\ calls[p].op = "getCache" /\ calls[p].pc = "getItem"
  /\ calls' = [calls EXCEPT ![p].pc = "check", ![p].cached = storage[calls[p].key]]
  /\ UNCHANGED <<storage, now, ticks, sfaults>> /\ UNCHANGED orchVars

(* await AsyncStorage.getItem(key) rejects: the catch returns null *)
GetItemRejects(p) ==
  /\ calls[p].op = "getCache" /\ calls[p].pc = "getItem"
  /\ sfaults < MaxStorageFaults
  /\ sfaults' = sfaults + 1
  /\ calls' = [calls EXCEPT ![p] = Returned(calls[p], GetCacheCatch(THROWN), "read-error")]
  /\ UNCHANGED <<storage, now, ticks>> /\ UNCHANGED orchVars

(* if (!cached) ...; JSON.parse; if (Date.now() - timestamp > CACHE_TTL) *)
GetCacheCheck(p) ==
  /\ calls[p].op = "getCache" /\ calls[p].pc = "check"
  /\ UNCHANGED <<storage, now, ticks, sfaults>> /\ UNCHANGED orchVars
  /\ LET b == GetCacheBody(calls[p].cached, now)
     IN CASE b.do = "return" ->
               calls' = [calls EXCEPT ![p] = Returned(calls[p], b.value, b.path)]
          [] b.do = "throw" ->
               calls' = [calls EXCEPT ![p] =
                           Returned(calls[p], GetCacheCatch(b.value), b.path)]
          [] b.do = "remove" ->
               calls' = [calls EXCEPT ![p].pc = "removeItem"]

(* await AsyncStorage.removeItem(key) resolves; return null *)
RemoveItemResolves(p) ==
  /\ calls[p].op = "getCache" /\ calls[p].pc = "removeItem"
  /\ storage' = RemoveItem(storage, calls[p].key)
  /\ calls' = [calls EXCEPT ![p] = Returned(calls[p], NULL, "expired")]
  /\ UNCHANGED <<now, ticks, sfaults>> /\ UNCHANGED orchVars

(* await AsyncStorage.removeItem(key) rejects: the catch returns null *)
RemoveItemRejects(p) ==
  /\ calls[p].op = "getCache" /\ calls[p].pc = "removeItem"
  /\ sfaults < MaxStorageFaults
  /\ sfaults' = sfaults + 1
  /\ calls' = [calls EXCEPT ![p] =
                 Returned(calls[p], GetCacheCatch(THROWN), "remove-error")]
  /\ UNCHANGED <<storage, now, ticks>> /\ UNCHANGED orchVars

(* const storeCache = async (key, data) => { try { setItem(key,            *)
(* JSON.stringify({data, timestamp: Date.now()})): the text is built, and  *)
(* the clock read, when the call is made                                   *)
StoreCacheCall(p, k, d) ==
  /\ calls[p].pc = "done"
  /\ calls' = [calls EXCEPT ![p] = [NoCall EXCEPT !.op = "storeCache", !.pc = "setItem",
                                                   !.key = k, !.data = d, !.ts = now]]
  /\ UNCHANGED <<storage, now, ticks, sfaults>> /\ UNCHANGED orchVars

(* await AsyncStorage.setItem(...) resolves *)
SetItemResolves(p) ==
  /\ calls[p].op = "storeCache" /\ calls[p].pc = "setItem"
  /\ storage' = SetItem(storage, calls[p].key, JSONstringify(calls[p].data, calls[p].ts))
  /\ calls' = [calls EXCEPT ![p] = Returned(calls[p], UNDEFINED, "stored")]
  /\ UNCHANGED <<now, ticks, sfaults>> /\ UNCHANGED orchVars

(* await AsyncStorage.setItem(...) rejects: the catch logs *)
SetItemRejects(p) ==
  /\ calls[p].op = "storeCache" /\ calls[p].pc = "setItem"
  /\ sfaults < MaxStorageFaults
  /\ sfaults' = sfaults + 1
  /\ calls' = [calls EXCEPT ![p] =
                 Returned(calls[p], StoreCacheCatch(THROWN), "store-error")]
  /\ UNCHANGED <<storage, now, ticks>> /\ UNCHANGED orchVars

(* Values of the orchestrator *)

(* null where the source holds an object or null *)
NoObject == [t |-> "null"]

(* a promise that has not settled, and the two ways it settles; failed     *)
(* records that the function took its error path to the value              *)
Pending == [settled |-> "pending"]
Fulfilled(v) == [settled |-> "fulfilled", value |-> v, failed |-> FALSE]
FailedOpen(v) == [settled |-> "fulfilled", value |-> v, failed |-> TRUE]
Rejected(reason) == [settled |-> "rejected", reason |-> reason]

(* The argument companies: an array of elements, or something else.  An    *)
(* element is a string or a number; v is what `${element}` prints.         *)
NotAnArray == [type |-> "notArray"]
Array(items) == [type |-> "array", items |-> items]
Str(s) == [type |-> "string", v |-> s]
IsString(e) == e.type = "string"
TemplateString(e) == e.v

Horizons == {"short-term", "long-term"}

(* env.variant names one of the three revisions of getStockRecommendation *)
(* in the repository: "service", the service module; "retrying", the       *)
(* revision with retries, social posts and the neutral fallback;           *)
(* "classifier", the revision that asks an external classifier             *)

Env(variant, hfKey) == [variant |-> variant, HF_API_KEY |-> hfKey]

IdleCall ==
  [pc |-> "idle", companies |-> NotAnArray, horizon |-> "short-term",
   valid |-> <<>>, results |-> <<>>, obs |-> <<>>, invoked |-> {},
   response |-> NoObject]

NoUI ==
  [pc |-> "none", tickers |-> <<>>, investingHorizon |-> "short-term",
   retryCount |-> 0, i |-> 0, allRecommendations |-> <<>>,
   recommendationsData |-> NoObject, error |-> NULL, routed |-> NoObject]


(* The clock: by a millisecond, or by the whole TTL *)
Tick(d) ==
  /\ ticks < MaxTicks
  /\ ticks' = ticks + 1
  /\ now' = now + d
  /\ UNCHANGED <<storage, sfaults, calls>> /\ UNCHANGED orchVars

InitCache ==
  /\ now = 0
  /\ ticks = 0
  /\ sfaults = 0
  /\ calls = [p \in Callers |-> NoCall]
  /\ storage \in [CacheKeys -> {Absent} \cup ForeignItems]
  /\ env = Env("service", TRUE)
  /\ call = IdleCall
  /\ ui = NoUI
  /\ faults = 0
  /\ fetches = <<>>

NextCache ==
  \/ \E p \in Callers, k \in CacheKeys : GetCacheCall(p, k)
  \/ \E p \in Callers : GetItemResolves(p)
  \/ \E p \in Callers : GetItemRejects(p)
  \/ \E p \in Callers : GetCacheCheck(p)
  \/ \E p \in Callers : RemoveItemResolves(p)
  \/ \E p \in Callers : RemoveItemRejects(p)
  \/ \E p \in Callers, k \in CacheKeys, d \in CacheData : StoreCacheCall(p, k, d)
  \/ \E p \in Callers : SetItemResolves(p)
  \/ \E p \in Callers : SetItemRejects(p)
  \/ \E d \in {1, CACHE_TTL} : Tick(d)

SpecCache == InitCache /\ [][NextCache]_vars

-----------------------------------------------------------------------------
(* JavaScript numbers, exactly: the fraction n/d in lowest terms, d > 0 *)

RECURSIVE GCD(_, _)
GCD(a, b) == IF b = 0 THEN a ELSE GCD(b, a % b)

Frac(n, d) ==
  LET abs(k) == IF k < 0 THEN -k ELSE k
      g == GCD(abs(n), abs(d))
      s == IF d < 0 THEN -1 ELSE 1
  IN [n |-> (s * n) \div g, d |-> (s * d) \div g]

Whole(k) == Frac(k, 1)
Plus(a, b) == Frac(a.n * b.d + b.n * a.d, a.d * b.d)
Minus(a, b) == Frac(a.n * b.d - b.n * a.d, a.d * b.d)
Times(a, b) == Frac(a.n * b.n, a.d * b.d)
Over(a, b) == Frac(a.n * b.d, a.d * b.n)
Less(a, b) == a.n * b.d < b.n * a.d
MathMax(a, b) == IF Less(a, b) THEN b ELSE a
MathMin(a, b) == IF Less(b, a) THEN b ELSE a

(* Math.round: the nearest integer, a half rounding up *)
MathRound(a) == Whole((2 * a.n + a.d) \div (2 * a.d))

(* x || 0 on a number *)
OrZero(x) == IF x.n = 0 THEN Whole(0) ELSE x


-----------------------------------------------------------------------------
(* Strings and texts *)

UpperCaseLetters == "ABCDEFGHIJKLMNOPQRSTUVWXYZ"
LowerCaseLetters == "abcdefghijklmnopqrstuvwxyz"

(* A character with its case changed: the letter of `to` at the place the  *)
(* character has in `from`, or the character itself                        *)
ChangeCase(ch, from, to) ==
  LET At(places) == IF places = {} THEN ch
                    ELSE LET i == CHOOSE i \in places : TRUE IN SubSeq(to, i, i)
  IN At({i \in 1..Len(from) : SubSeq(from, i, i) = ch})

(* String.prototype.toLowerCase and toUpperCase *)
RECURSIVE toLowerCase(_)
toLowerCase(str) ==
  IF Len(str) = 0 THEN ""
  ELSE ChangeCase(SubSeq(str, 1, 1), UpperCaseLetters, LowerCaseLetters)
         \o toLowerCase(SubSeq(str, 2, Len(str)))

RECURSIVE toUpperCase(_)
toUpperCase(str) ==
  IF Len(str) = 0 THEN ""
  ELSE ChangeCase(SubSeq(str, 1, 1), LowerCaseLetters, UpperCaseLetters)
         \o toUpperCase(SubSeq(str, 2, Len(str)))

(* The characters of a text: its words and the spaces between them *)
TextLength(text) ==
  LET RECURSIVE CharsIn(_)
      CharsIn(words) == IF words = <<>> THEN 0 ELSE Len(Head(words)) + CharsIn(Tail(words))
  IN IF text = <<>> THEN 0 ELSE CharsIn(text) + Len(text) - 1

(* text.substring(0, n): the cut may fall inside a word, or just after a   *)
(* space, which leaves an empty last word                                  *)
RECURSIVE Substring(_, _)
Substring(text, n) ==
  IF text = <<>> \/ n = 0 THEN <<>>
  ELSE IF Len(Head(text)) >= n THEN <<SubSeq(Head(text), 1, n)>>
  ELSE IF Len(text) = 1 THEN text
  ELSE IF n - Len(Head(text)) - 1 = 0 THEN <<Head(text), "">>
  ELSE <<Head(text)>> \o Substring(Tail(text), n - Len(Head(text)) - 1)

(* arr.map(f).filter(text => text.length > 0) for a field of the items *)
NonEmptyTexts(texts) == SelectSeq(texts, LAMBDA t : TextLength(t) > 0)

(* arr.slice(i, i + n) *)
Slice(arr, i, n) == SubSeq(arr, i + 1, IF i + n < Len(arr) THEN i + n ELSE Len(arr))

-----------------------------------------------------------------------------
(* The providers, as this world answers them.  Each symbol has one answer  *)
(* per provider; a request may also fail (see the fault patterns).         *)

Chart(closes, recent, historical, volatility) ==
  [kind |-> "chart", closes |-> closes, recent_growth |-> Whole(recent),
   historical_growth |-> Whole(historical), volatility |-> Frac(volatility, 100)]


(* Yahoo Finance chart for a symbol and a range: the number of non-null    *)
(* closes and what processStockData makes of them                          *)
YahooChart(symbol, range) ==
  CASE symbol = "AAPL" -> IF range = "1mo" THEN Chart(22, 10, 25, 20) ELSE Chart(1250, 10, 120, 30)
    [] symbol = "MSFT" -> IF range = "1mo" THEN Chart(22, -4, 8, 15) ELSE Chart(1250, -4, 60, 25)
    [] symbol = "NVDA" -> IF range = "1mo" THEN Chart(22, 30, 60, 50) ELSE Chart(1250, 30, 400, 60)
    [] symbol = "TSLA" -> IF range = "1mo" THEN Chart(22, -25, -60, 130) ELSE Chart(1250, -25, -10, 70)
    [] symbol = "FLAT" -> IF range = "1mo" THEN Chart(22, 4, 0, 10) ELSE Chart(1250, 4, 0, 10)
    [] symbol = "NEWB" -> Chart(4, 3, 3, 40)
    [] OTHER -> [kind |-> "invalid"]

LongSummary ==
  <<"Apple", "reported", "strong", "quarterly", "profit", "as", "iPhone", "sales",
    "kept", "rising", "in", "every", "region", "while", "services", "revenue",
    "reached", "a", "record", "high", "despite", "weak", "demand", "and", "risk",
    "of", "decline">>

(* Finnhub company-news for a symbol *)
Finnhub(symbol) ==
  LET NewsList(items) == [isArray |-> TRUE, items |-> items]
  IN
  CASE symbol = "AAPL" -> NewsList(<<[summary |-> LongSummary],
                                     [summary |-> <<"Regulators", "open", "probe">>]>>)
    [] symbol = "MSFT" -> NewsList(<<[headline |-> <<"Microsoft">>],
                                     [summary |-> <<"Cloud", "unit", "posts", "loss", "and",
                                                    "weak", "guidance">>]>>)
    [] symbol = "NVDA" -> NewsList(<<[summary |-> <<"Chip", "demand", "up", "but", "supply",
                                                    "down">>]>>)
    [] symbol = "TSLA" -> NewsList(<<[summary |-> <<"Deliveries", "decline", "amid", "poor",
                                                    "demand">>]>>)
    [] symbol = "NEWB" -> NewsList(<<[summary |-> <<"Newcomer", "lists", "shares">>]>>)
    [] symbol = "FLAT" -> NewsList(<<>>)
    [] OTHER -> [isArray |-> FALSE]

(* Wall Street Journal search for a keyword *)
WSJ(keyword) ==
  LET WSJResult(articles) == [status |-> TRUE, data |-> articles]
  IN
  CASE keyword = "AAPL" -> WSJResult(<<[headline |-> "Apple outlook",
                                        summary |-> <<"Analysts", "see", "growth", "ahead">>]>>)
    [] keyword = "NVDA" -> WSJResult(<<[headline |-> "Chips",
                                        summary |-> <<"Orders", "are", "strong">>],
                                       [headline |-> "", summary |-> <<"untitled">>]>>)
    [] keyword = "TSLA" -> [status |-> FALSE]
    [] OTHER -> WSJResult(<<>>)

(* Bluesky search: the posts that pass the relevance filter *)
Bluesky(symbol) ==
  CASE symbol = "NVDA" -> <<[text |-> <<"NVDA", "shares", "up">>],
                            [text |-> <<"NVDA", "earnings", "good">>],
                            [text |-> <<"NVDA", "stock", "is", "a", "risk">>]>>
    [] OTHER -> <<>>

(* What getCompanyName falls back to *)
CompanyName(symbol) == symbol

-----------------------------------------------------------------------------
(* The adapters.  fails: this request errors (network error, timeout, bad  *)
(* status), so the adapter's catch runs.  The cache is cold: the store is  *)
(* modelled on its own above.                                              *)

Range(horizon) == IF horizon = "short-term" THEN "1mo" ELSE "5y"

processStockData(chart) ==
  [recent_growth |-> chart.recent_growth, historical_growth |-> chart.historical_growth,
   volatility |-> chart.volatility, data_points |-> chart.closes]

(* getCacheKey(type, identifier) calls identifier.slice: a TypeError when  *)
(* the identifier is not a string                                          *)
GetCacheKeyThrows(identifier) == ~IsString(identifier)

fetchStockData_FourCloses(symbol, horizon, fails) ==
  LET Received(responseData) ==
        IF responseData.kind # "chart" THEN FailedOpen(NoObject)
        ELSE IF responseData.closes < 4 THEN Fulfilled(NoObject)
        ELSE Fulfilled(processStockData(responseData))
  IN IF fails THEN FailedOpen(NoObject)
     ELSE Received(YahooChart(TemplateString(symbol), Range(horizon)))

(* fetchStockData: the key is built from a template string, so it never    *)
(* throws; null on a failed request, a payload without chart.result[0],    *)
(* or fewer than 5 closes                                                  *)
fetchStockData(symbol, horizon, fails) ==
  LET Received(responseData) ==
        IF responseData.kind # "chart" THEN FailedOpen(NoObject)
        ELSE IF responseData.closes < 5 THEN Fulfilled(NoObject)
        ELSE Fulfilled(processStockData(responseData))
  IN IF fails THEN FailedOpen(NoObject)
     ELSE Received(YahooChart(TemplateString(symbol), Range(horizon)))

validateNewsData(data) == data.isArray

(* fetchCompanyNews: [] on a failed request or an invalid payload *)
fetchCompanyNews(symbol, fails) ==
  LET HasSummary(article) ==
        "summary" \in DOMAIN article /\ TextLength(article.summary) > 0
      Received(data) ==
        IF ~validateNewsData(data) THEN FailedOpen(<<>>)
        ELSE Fulfilled(SelectSeq(data.items, HasSummary))
  IN IF GetCacheKeyThrows(symbol) THEN Rejected("identifier.slice is not a function")
     ELSE IF fails THEN FailedOpen(<<>>)
     ELSE Received(Finnhub(symbol.v))

(* fetchCompanyArticles: [] on a failed request or an invalid payload; at  *)
(* most 5 articles                                                         *)
fetchCompanyArticles(query, fails) ==
  LET WSJArticle(article) == [title |-> article.headline, text |-> article.summary]
      HasTitleAndText(article) == Len(article.title) > 0 /\ TextLength(article.text) > 0
      Received(response) ==
        IF ~response.status THEN FailedOpen(<<>>)
        ELSE Fulfilled(Slice(SelectSeq([i \in 1..Len(response.data) |->
                                          WSJArticle(response.data[i])], HasTitleAndText),
                             0, 5))
  IN IF GetCacheKeyThrows(query) THEN Rejected("identifier.slice is not a function")
     ELSE IF fails THEN FailedOpen(<<>>)
     ELSE Received(WSJ(query.v))

mockPosts(originalSymbol, companyName) ==
  <<[text |-> <<originalSymbol, companyName, "has", "been", "showing", "interesting",
                "patterns", "in", "recent", "trading", "sessions", "The", "stock", "has",
                "strong", "support", "at", "current", "levels">>],
    [text |-> <<companyName, originalSymbol, "reported", "quarterly", "earnings", "that",
                "exceeded", "analysts", "expectations", "Revenue", "growth", "remains",
                "strong", "despite", "market", "headwinds">>],
    [text |-> <<"Breaking", companyName, originalSymbol, "shares", "moved", "higher",
                "today", "on", "increased", "trading", "volume", "Investors", "are",
                "responding", "positively", "to", "recent", "company", "announcements">>]>>

(* fetchCompanyTweets: [] when the session or the search fails; mock posts *)
(* are appended when fewer than 3 posts are found                          *)
fetchCompanyTweets(symbol, fails) ==
  LET Found(formattedPosts) ==
        IF Len(formattedPosts) < 3
          THEN Fulfilled(formattedPosts \o mockPosts(symbol.v, CompanyName(symbol.v)))
          ELSE Fulfilled(formattedPosts)
  IN IF GetCacheKeyThrows(symbol) THEN Rejected("identifier.slice is not a function")
     ELSE IF fails THEN FailedOpen(<<>>)
     ELSE Found(Bluesky(symbol.v))

(* Promise.all: rejects with the first rejection, else the values in the   *)
(* order of the promises                                                   *)
PromiseAll(promises) ==
  IF \E i \in 1..Len(promises) : promises[i].settled = "rejected"
    THEN LET first == CHOOSE i \in 1..Len(promises) :
                        /\ promises[i].settled = "rejected"
                        /\ \A j \in 1..(i - 1) : promises[j].settled # "rejected"
         IN Rejected(promises[first].reason)
    ELSE Fulfilled([i \in 1..Len(promises) |-> promises[i].value])

-----------------------------------------------------------------------------
(* The sentiment analyzers *)

POSITIVE_WORDS ==
  {"increase", "profit", "growth", "gain", "positive", "up", "high", "rising", "success",
   "strong", "better", "improved", "growing", "good", "promising"}

NEGATIVE_WORDS ==
  {"decrease", "loss", "decline", "down", "negative", "low", "falling", "fail", "weak",
   "worse", "reduced", "poor", "bad", "risk"}

analyzeSentiment_InclusiveThresholds(text) ==
  LET Scored(score) ==
        [score |-> score,
         positive |-> IF ~Less(score, Frac(6, 10)) THEN 1 ELSE 0,
         negative |-> IF ~Less(Frac(4, 10), score) THEN 1 ELSE 0,
         neutral |-> IF ~Less(score, Frac(4, 10)) /\ ~Less(Frac(6, 10), score) THEN 1 ELSE 0,
         total |-> 1]
      Counted(positive, negative) ==
        IF positive + negative = 0
          THEN [score |-> Frac(1, 2), positive |-> 0, negative |-> 0, neutral |-> 1,
                total |-> 1]
          ELSE Scored(Frac(positive, positive + negative))
      Split(words) ==
        Counted(Cardinality({i \in 1..Len(words) : words[i] \in POSITIVE_WORDS}),
                Cardinality({i \in 1..Len(words) : words[i] \in NEGATIVE_WORDS}))
  IN Split([i \in 1..Len(text) |-> toLowerCase(text[i])])

(* analyzeSentiment(text) of the lexicon revisions *)
analyzeSentiment(text) ==
  LET Scored(score) ==
        [score |-> score,
         positive |-> IF Less(Frac(6, 10), score) THEN 1 ELSE 0,
         negative |-> IF Less(score, Frac(4, 10)) THEN 1 ELSE 0,
         neutral |-> IF ~Less(score, Frac(4, 10)) /\ ~Less(Frac(6, 10), score) THEN 1 ELSE 0,
         total |-> 1]
      Counted(positive, negative) ==
        IF positive + negative = 0
          THEN [score |-> Frac(1, 2), positive |-> 0, negative |-> 0, neutral |-> 1,
                total |-> 1]
          ELSE Scored(Frac(positive, positive + negative))
      Split(words) ==
        Counted(Cardinality({i \in 1..Len(words) : words[i] \in POSITIVE_WORDS}),
                Cardinality({i \in 1..Len(words) : words[i] \in NEGATIVE_WORDS}))
  IN Split([i \in 1..Len(text) |-> toLowerCase(text[i])])

(* analyzeArticles(articles): the sum of the per-text results, the score   *)
(* averaged                                                                *)
analyzeArticles(articles) ==
  LET AddSentiment(acc, cur) ==
        [score |-> Plus(acc.score, cur.score), positive |-> acc.positive + cur.positive,
         negative |-> acc.negative + cur.negative, neutral |-> acc.neutral + cur.neutral,
         total |-> acc.total + cur.total]
      Averaged(result, length) == [result EXCEPT !.score = Over(result.score, Whole(length))]
      Reduced(sentiments) ==
        LET acc[i \in 0..Len(sentiments)] ==
              IF i = 0
                THEN [score |-> Whole(0), positive |-> 0, negative |-> 0, neutral |-> 0,
                      total |-> 0]
                ELSE AddSentiment(acc[i - 1], sentiments[i])
        IN Averaged(acc[Len(sentiments)], Len(sentiments))
  IN IF Len(articles) = 0
       THEN [score |-> Frac(1, 2), positive |-> 0, negative |-> 0, neutral |-> 0, total |-> 0]
       ELSE Reduced([i \in 1..Len(articles) |-> analyzeSentiment(articles[i])])

defaultSentiment ==
  [score |-> Whole(0), positive |-> 0, negative |-> 0, neutral |-> 0, total |-> 0]

(* What the classifier endpoint does with a request: it errors, or labels  *)
(* the chunk                                                               *)
ClassifierAnswers == {"error", "positive", "negative", "neutral"}

MAX_CHUNK_LENGTH == 450

(* The chunks analyzeSentiment of the classifier revision sends: the       *)
(* trimmed non-empty articles in order, a chunk closed when the joined     *)
(* chunk and the next article together exceed MAX_CHUNK_LENGTH.  A chunk   *)
(* is currentChunk.join(" "): the words of its articles                    *)
chunks(articles) ==
  LET RECURSIVE trimStart(_), trimEnd(_)
      trimStart(a) == IF a # <<>> /\ Head(a) = "" THEN trimStart(Tail(a)) ELSE a
      trimEnd(a) ==
        IF a # <<>> /\ a[Len(a)] = "" THEN trimEnd(SubSeq(a, 1, Len(a) - 1)) ELSE a
      RECURSIVE join(_)
      join(chunk) == IF chunk = <<>> THEN <<>> ELSE Head(chunk) \o join(Tail(chunk))
      ForEach(trimmed) ==
        LET loop[i \in 0..Len(trimmed)] ==
              IF i = 0 THEN [chunks |-> <<>>, currentChunk |-> <<>>]
              ELSE IF TextLength(join(loop[i - 1].currentChunk)) + TextLength(trimmed[i])
                        > MAX_CHUNK_LENGTH
                THEN [chunks |-> Append(loop[i - 1].chunks, join(loop[i - 1].currentChunk)),
                      currentChunk |-> <<trimmed[i]>>]
                ELSE [chunks |-> loop[i - 1].chunks,
                      currentChunk |-> Append(loop[i - 1].currentChunk, trimmed[i])]
            Last(l) == IF Len(l.currentChunk) > 0
                         THEN Append(l.chunks, join(l.currentChunk)) ELSE l.chunks
        IN Last(loop[Len(trimmed)])
  IN ForEach(NonEmptyTexts([i \in 1..Len(articles) |-> trimEnd(trimStart(articles[i]))]))

(* analyzeSentiment(articles) of the classifier revision: one request per  *)
(* chunk, each answered with one label of confidence 0.9, or every request *)
(* failing                                                                 *)
analyzeSentimentHF(articles, answer) ==
  LET Labelled(n) ==
        IF n = 0 \/ answer = "error" THEN defaultSentiment
        ELSE [score |-> Frac(9, 10),
              positive |-> IF answer = "positive" THEN n ELSE 0,
              negative |-> IF answer = "negative" THEN n ELSE 0,
              neutral |-> IF answer = "neutral" THEN n ELSE 0,
              total |-> n]
  IN IF Len(articles) = 0 THEN defaultSentiment ELSE Labelled(Len(chunks(articles)))

-----------------------------------------------------------------------------
(* Scoring *)

sentimentScore(sentiment) ==
  IF sentiment.total # 0
    THEN Plus(Whole(50),
              Times(Minus(Over(Whole(sentiment.positive), Whole(sentiment.total)),
                          Over(Whole(sentiment.negative), Whole(sentiment.total))),
                    Whole(50)))
    ELSE Whole(50)

recent_performance(stockData) ==
  MathMin(MathMax(Times(Over(Plus(stockData.recent_growth, Whole(20)), Whole(40)), Whole(100)),
                  Whole(0)),
          Whole(100))

historical_growth(stockData) ==
  MathMin(MathMax(Times(Over(Plus(stockData.historical_growth, Whole(50)), Whole(100)),
                        Whole(100)),
                  Whole(0)),
          Whole(100))

(* Math.max(0, volatility * 100), and in the classifier revision           *)
(* Math.max(0, 100 - volatility * 100)                                     *)
risk_factor(stockData) == MathMax(Whole(0), Times(stockData.volatility, Whole(100)))

risk_factorHF(stockData) ==
  MathMax(Whole(0), Minus(Whole(100), Times(stockData.volatility, Whole(100))))

components(stockData, sentiment_score) ==
  [recent_performance |-> recent_performance(stockData),
   historical_growth |-> historical_growth(stockData),
   sentiment_score |-> sentiment_score,
   risk_factor |-> risk_factor(stockData)]

componentsHF(stockData, sentiment_score) ==
  [recent_performance |-> recent_performance(stockData),
   historical_growth |-> historical_growth(stockData),
   sentiment_score |-> sentiment_score,
   risk_factor |-> risk_factorHF(stockData)]

Weights(rp, hg, s, rf) ==
  [recent_performance |-> Frac(rp, 10), historical_growth |-> Frac(hg, 10),
   sentiment_score |-> Frac(s, 10), risk_factor |-> Frac(rf, 10)]

weights(horizon) ==
  IF horizon = "short-term" THEN Weights(4, 2, 3, 1) ELSE Weights(2, 4, 2, 2)

(* the weights of the neutral fallback *)
defaultWeights(horizon) ==
  IF horizon = "short-term" THEN Weights(5, 3, 1, 1) ELSE Weights(2, 5, 1, 2)

(* Object.keys(weights).reduce((acc, key) => acc + c[key] * w[key], 0) *)
WeightedSum(c, w) ==
  Plus(Plus(Plus(Plus(Whole(0), Times(c.recent_performance, w.recent_performance)),
                 Times(c.historical_growth, w.historical_growth)),
            Times(c.sentiment_score, w.sentiment_score)),
       Times(c.risk_factor, w.risk_factor))

RoundToTenth_Truncated(score) ==
  Over(Whole(Times(score, Whole(10)).n \div Times(score, Whole(10)).d), Whole(10))

(* Math.round(score * 10) / 10 *)
RoundToTenth(score) == Over(MathRound(Times(score, Whole(10))), Whole(10))

(* Number.prototype.toFixed(1): the nearest tenth, a tie to the larger *)
toFixed(x) ==
  LET Digits(n) == ToString(n \div 10) \o "." \o ToString(n % 10)
  IN IF x.n < 0 THEN "-" \o Digits(MathRound(Times(Minus(Whole(0), x), Whole(10))).n)
     ELSE Digits(MathRound(Times(x, Whole(10))).n)

generateSentimentRationale_Rethrow(company, score, fails) ==
  IF fails THEN Rejected("generateContent failed")
  ELSE Fulfilled("The coverage of " \o company \o " explains the score.")

(* generateSentimentRationale: the text the model generates; when the      *)
(* generation throws or rejects, the catch returns the templated sentence  *)
generateSentimentRationale(company, score, fails) ==
  IF fails
    THEN FailedOpen("Unable to generate rationale for " \o company
                      \o "'s sentiment score of " \o toFixed(score) \o ".")
    ELSE Fulfilled("The coverage of " \o company \o " explains the score.")

Recommendation(company, stockData, sentiment, c, w) ==
  [company |-> company,
   score |-> RoundToTenth(WeightedSum(c, w)),
   details |-> [stock_data |-> stockData, sentiment |-> sentiment, components |-> c]]

(* The recommendation of the revisions that explain the sentiment *)
WithRationale(recommendation, sentimentRationale) ==
  [recommendation EXCEPT !.details =
     [stock_data |-> @.stock_data, sentiment |-> @.sentiment, components |-> @.components,
      sentiment_rationale |-> sentimentRationale]]

-----------------------------------------------------------------------------
(* The per-company pipeline of getStockRecommendation, in each revision.   *)
(* f is the fault pattern of the run: f.stock, f.news, f.articles and      *)
(* f.tweets are the numbers of leading requests of each adapter that fail. *)

MAX_RETRIES == 2

Sources == {"news", "articles", "tweets"}

(* What a run of the pipeline showed: the statistics it got, the sources   *)
(* whose adapter failed and those that returned items on the last round,   *)
(* whether the analyzer ran and on which texts, whether the body threw;    *)
(* the requests it sent to the market-data and the news provider and how   *)
(* many of them failed, the calls of the other adapters and of the         *)
(* rationale generator, what became of the rationale call, and the steps   *)
(* of the callback in the order it took them                               *)
Obs(stockData, failed, nonEmpty, ran, analyzed, threw, steps) ==
  [stock |-> stockData, failed |-> failed, nonEmpty |-> nonEmpty, ran |-> ran,
   analyzed |-> analyzed, threw |-> threw,
   requests |-> [stock |-> 0, news |-> 0, stockFailed |-> 0, newsFailed |-> 0,
                 fetchStockData |-> 0, rounds |-> 0, fetchCompanyArticles |-> 0,
                 fetchCompanyTweets |-> 0, generateSentimentRationale |-> 0],
   rationale |-> "none", steps |-> steps]

(* The outcome with the requests the run sent and the calls it made: the   *)
(* market-data adapter was called stock times and the signal adapters news *)
(* times each; the leading requests fail as the fault pattern says.  The   *)
(* news adapter sends no request when building its cache key throws        *)
Requested(outcome, company, f, stock, news) ==
  LET Sent(n) ==
        [outcome EXCEPT !.obs.requests =
           [stock |-> stock, news |-> n,
            stockFailed |-> IF f.stock < stock THEN f.stock ELSE stock,
            newsFailed |-> IF f.news < n THEN f.news ELSE n,
            fetchStockData |-> stock, rounds |-> news,
            fetchCompanyArticles |-> IF "articles" \in outcome.invoked THEN news ELSE 0,
            fetchCompanyTweets |-> IF "tweets" \in outcome.invoked THEN news ELSE 0,
            generateSentimentRationale |-> IF outcome.obs.rationale = "none" THEN 0 ELSE 1]]
  IN Sent(IF GetCacheKeyThrows(company) THEN 0 ELSE news)

Outcome(promise, obs, invoked) == [promise |-> promise, obs |-> obs, invoked |-> invoked]

FailedOf(n, a, t) ==
  {s \in Sources : \/ s = "news" /\ n.failed
                   \/ s = "articles" /\ a.failed
                   \/ s = "tweets" /\ t.failed}

NonEmptyOf(news, articles, tweets) ==
  {s \in Sources : \/ s = "news" /\ Len(news) > 0
                   \/ s = "articles" /\ Len(articles) > 0
                   \/ s = "tweets" /\ Len(tweets) > 0}

(* article.summary?.substring(0, 100) || "" *)
newsTexts(news) ==
  LET SummarySnippet(article) ==
        IF "summary" \in DOMAIN article THEN Substring(article.summary, 100) ELSE <<>>
  IN NonEmptyTexts([i \in 1..Len(news) |-> SummarySnippet(news[i])])

articleTexts(articles) == NonEmptyTexts([i \in 1..Len(articles) |-> articles[i].text])
tweetTexts(tweets) == NonEmptyTexts([i \in 1..Len(tweets) |-> tweets[i].text])

SkipCompany_EitherEmpty(stockData, news, articles) ==
  stockData = NoObject \/ Len(news) = 0 \/ Len(articles) = 0

(* if (!stockData || (!news.length && !articles.length)) return null *)
SkipCompany(stockData, news, articles) ==
  stockData = NoObject \/ (Len(news) = 0 /\ Len(articles) = 0)

(* The service module: one request per adapter, all three in parallel *)
ServicePipeline(company, horizon, f) ==
  LET invoked == {"stock", "news", "articles"}
      Dropped(stockData, failed, nonEmpty) ==
        Outcome(Fulfilled(NoObject),
                Obs(stockData, failed, nonEmpty, FALSE, <<>>, FALSE, <<"fetch", "gate">>),
                invoked)
      Explained(stockData, failed, nonEmpty, allTexts, sentiment, rationale) ==
        IF rationale.settled = "rejected"
          THEN Outcome(Rejected(rationale.reason),
                       [Obs(stockData, failed, nonEmpty, TRUE, allTexts, TRUE,
                            <<"fetch", "gate", "sentiment", "rationale">>)
                          EXCEPT !.rationale = "failed"], invoked)
          ELSE Outcome(Fulfilled(WithRationale(
                         Recommendation(company.v, stockData, sentiment,
                                        components(stockData, sentimentScore(sentiment)),
                                        weights(horizon)),
                         rationale.value)),
                       [Obs(stockData, failed, nonEmpty, TRUE, allTexts, FALSE,
                            <<"fetch", "gate", "sentiment", "rationale", "score">>)
                          EXCEPT !.rationale = IF rationale.failed THEN "failed"
                                               ELSE "generated"], invoked)
      Scored(stockData, failed, nonEmpty, allTexts, sentiment) ==
        Explained(stockData, failed, nonEmpty, allTexts, sentiment,
                  generateSentimentRationale(company.v, sentimentScore(sentiment),
                                             f.rationale > 0))
      WithTexts(stockData, failed, nonEmpty, allTexts) ==
        IF Len(allTexts) = 0 THEN Dropped(stockData, failed, nonEmpty)
        ELSE Scored(stockData, failed, nonEmpty, allTexts, analyzeArticles(allTexts))
      Body(stockData, news, articles, failed) ==
        IF SkipCompany(stockData, news, articles)
          THEN Dropped(stockData, failed, NonEmptyOf(news, articles, <<>>))
          ELSE WithTexts(stockData, failed, NonEmptyOf(news, articles, <<>>),
                         newsTexts(news) \o articleTexts(articles))
      Settled(s, n, a, all) ==
        IF all.settled = "rejected"
          THEN Outcome(Rejected(all.reason), Obs(s.value, {}, {}, FALSE, <<>>, TRUE, <<"fetch">>), invoked)
          ELSE Body(all.value[1], all.value[2], all.value[3],
                    FailedOf(n, a, Fulfilled(<<>>)))
      Awaited(s, n, a) == Settled(s, n, a, PromiseAll(<<s, n, a>>))
  IN Requested(Awaited(fetchStockData(company, horizon, f.stock > 0),
                       fetchCompanyNews(company, f.news > 0),
                       fetchCompanyArticles(company, f.articles > 0)),
               company, f, 1, 1)

RECURSIVE StockRetry_FourAttempts(_, _, _, _)
StockRetry_FourAttempts(company, horizon, f, retryCount) ==
  LET Fetched(stockData) ==
        IF stockData # NoObject THEN [stockData |-> stockData, requests |-> retryCount + 1]
        ELSE StockRetry_FourAttempts(company, horizon, f, retryCount + 1)
  IN IF retryCount > MAX_RETRIES + 1 THEN [stockData |-> NoObject, requests |-> retryCount]
     ELSE Fetched(fetchStockData(company, horizon, retryCount < f.stock).value)

(* while (!stockData && retryCount <= MAX_RETRIES) stockData = await       *)
(* fetchStockData(company, horizon)                                        *)
RECURSIVE StockRetry(_, _, _, _)
StockRetry(company, horizon, f, retryCount) ==
  LET Fetched(stockData) ==
        IF stockData # NoObject THEN [stockData |-> stockData, requests |-> retryCount + 1]
        ELSE StockRetry(company, horizon, f, retryCount + 1)
  IN IF retryCount > MAX_RETRIES THEN [stockData |-> NoObject, requests |-> retryCount]
     ELSE Fetched(fetchStockData(company, horizon, retryCount < f.stock).value)

(* One round of the three signal adapters in parallel; when Promise.all    *)
(* rejects, the catch leaves news, articles and tweets as they were        *)
SignalRound(company, f, retryCount) ==
  LET Settled(n, a, t, all) ==
        IF all.settled = "rejected"
          THEN [news |-> <<>>, articles |-> <<>>, tweets |-> <<>>, failed |-> {},
                rounds |-> retryCount + 1]
          ELSE [news |-> all.value[1], articles |-> all.value[2], tweets |-> all.value[3],
                failed |-> FailedOf(n, a, t), rounds |-> retryCount + 1]
      Awaited(n, a, t) == Settled(n, a, t, PromiseAll(<<n, a, t>>))
  IN Awaited(fetchCompanyNews(company, retryCount < f.news),
             fetchCompanyArticles(company, retryCount < f.articles),
             fetchCompanyTweets(company, retryCount < f.tweets))

(* while (all three are empty && retryCount <= MAX_RETRIES) *)
RECURSIVE SignalRetry(_, _, _)
SignalRetry(company, f, retryCount) ==
  LET After(round) ==
        IF /\ Len(round.news) = 0 /\ Len(round.articles) = 0 /\ Len(round.tweets) = 0
           /\ retryCount + 1 <= MAX_RETRIES
          THEN SignalRetry(company, f, retryCount + 1)
          ELSE round
  IN After(SignalRound(company, f, retryCount))

NeutralSentiment ==
  [score |-> Frac(1, 2), positive |-> 0, negative |-> 0, neutral |-> 1, total |-> 1]

(* The revision with retries, social posts and the neutral fallback *)
RetryingPipeline(company, horizon, f) ==
  LET invoked == {"stock", "news", "articles", "tweets"}
      Explained(stockData, r, nonEmpty, allTexts, sentiment, rationale) ==
        Outcome(Fulfilled(WithRationale(
                  Recommendation(company.v, stockData, sentiment,
                                 components(stockData, sentimentScore(sentiment)),
                                 weights(horizon)),
                  IF rationale.settled = "rejected"
                    THEN "Analysis of "
                           \o ToString(Len(r.news) + Len(r.articles) + Len(r.tweets))
                           \o " content items shows a sentiment score of "
                           \o toFixed(sentimentScore(sentiment)) \o "."
                    ELSE rationale.value)),
                [Obs(stockData, r.failed, nonEmpty, TRUE, allTexts, FALSE,
                     <<"fetch", "gate", "sentiment", "rationale", "score">>)
                   EXCEPT !.rationale = IF rationale.settled = "rejected" \/ rationale.failed
                                          THEN "failed" ELSE "generated"], invoked)
      Scored(stockData, r, nonEmpty, allTexts, sentiment) ==
        Explained(stockData, r, nonEmpty, allTexts, sentiment,
                  generateSentimentRationale(company.v, sentimentScore(sentiment),
                                             f.rationale > 0))
      WithTexts(stockData, r, nonEmpty, allTexts) ==
        Scored(stockData, r, nonEmpty, allTexts, analyzeArticles(allTexts))
      Body(stockData, r, nonEmpty) ==
        IF stockData = NoObject
          THEN Outcome(Fulfilled(NoObject),
                       Obs(stockData, r.failed, nonEmpty, FALSE, <<>>, FALSE,
                           <<"fetch", "gate">>), invoked)
        ELSE IF Len(r.news) = 0 /\ Len(r.articles) = 0 /\ Len(r.tweets) = 0
          THEN Outcome(Fulfilled(WithRationale(
                         Recommendation(company.v, stockData, NeutralSentiment,
                                        components(stockData, Whole(50)),
                                        defaultWeights(horizon)),
                         "No recent news available for " \o company.v
                           \o ". Analysis based solely on technical indicators.")),
                       Obs(stockData, r.failed, nonEmpty, FALSE, <<>>, FALSE,
                           <<"fetch", "gate", "score">>), invoked)
        ELSE WithTexts(stockData, r, nonEmpty,
                       newsTexts(r.news) \o articleTexts(r.articles) \o tweetTexts(r.tweets))
      Fetched(s, r) ==
        Requested(Body(s.stockData, r, NonEmptyOf(r.news, r.articles, r.tweets)),
                  company, f, s.requests, r.rounds)
  IN Fetched(StockRetry(company, horizon, f, 0), SignalRetry(company, f, 0))

(* The classifier revision: statistics and news only *)
ClassifierPipeline(company, horizon, f, answer) ==
  LET invoked == {"stock", "news"}
      Scored(stockData, failed, nonEmpty, articles, sentiment) ==
        Outcome(Fulfilled(Recommendation(company.v, stockData, sentiment,
                                         componentsHF(stockData, sentimentScore(sentiment)),
                                         weights(horizon))),
                Obs(stockData, failed, nonEmpty, TRUE, articles, FALSE,
                    <<"fetch", "gate", "sentiment", "score">>), invoked)
      WithTexts(stockData, failed, nonEmpty, articles) ==
        Scored(stockData, failed, nonEmpty, articles, analyzeSentimentHF(articles, answer))
      Body(stockData, news, failed, nonEmpty) ==
        IF stockData = NoObject \/ Len(news) = 0
          THEN Outcome(Fulfilled(NoObject),
                       Obs(stockData, failed, nonEmpty, FALSE, <<>>, FALSE,
                           <<"fetch", "gate">>), invoked)
          ELSE WithTexts(stockData, failed, nonEmpty, newsTexts(news))
      Awaited(s, n) ==
        Body(s.value, n.value, FailedOf(n, Fulfilled(<<>>), Fulfilled(<<>>)),
             NonEmptyOf(n.value, <<>>, <<>>))
  IN Requested(Awaited(fetchStockData(company, horizon, f.stock > 0),
                       fetchCompanyNews(company, f.news > 0)),
               company, f, 1, 1)

-----------------------------------------------------------------------------
(* Bounds of the orchestrator *)

MaxCompanies == 2   \* elements of the array in a direct call
MaxFaults == 3      \* provider requests that may fail in one behaviour

(* Inputs *)

Elements == {Str("AAPL"), Str("MSFT"), Str("FLAT"), Str("ZZZZ"),
             [type |-> "number", v |-> "42"]}

(* What a caller may pass: anything up to MaxCompanies elements under      *)
(* either horizon, and the whole list of a caller that does not batch      *)
DirectInputs ==
  ({NotAnArray} \cup {Array(items) : items \in UNION {[1..n -> Elements] : n \in 0..MaxCompanies}})
     \X Horizons
    \cup {<<Array([i \in 1..6 |-> Str("ZZZZ")]), "long-term">>}

(* What validateInput lets through: upper-case ticker symbols *)
TickerLists ==
  {<<"MSFT", "AAPL">>,
   <<"MSFT", "TSLA", "FLAT", "ZZZZ", "NEWB", "AAPL", "NVDA">>}

Companies ==
  Elements \cup UNION {{Str(list[i]) : i \in 1..Len(list)} : list \in TickerLists}

FaultCount(f) == f.stock + f.news + f.articles + f.tweets + f.rationale

FaultPatterns ==
  {f : f \in {g \in [stock : 0..(MAX_RETRIES + 1), news : 0..(MAX_RETRIES + 1),
                     articles : 0..(MAX_RETRIES + 1), tweets : 0..(MAX_RETRIES + 1),
                     rationale : 0..1] :
                FaultCount(g) <= MaxFaults}}

(* A revision that makes one request per adapter can see one failure of   *)
(* it; an adapter it does not call cannot fail                             *)
FaultsOf(variant) ==
  CASE variant = "service" ->
         {f : f \in {g \in FaultPatterns :
                       g.stock <= 1 /\ g.news <= 1 /\ g.articles <= 1 /\ g.tweets = 0}}
    [] variant = "retrying" -> FaultPatterns
    [] variant = "classifier" ->
         {f : f \in {g \in FaultPatterns :
                       g.stock <= 1 /\ g.news <= 1 /\ g.articles = 0 /\ g.tweets = 0
                       /\ g.rationale = 0}}

(* The pipelines are functions of their arguments: tabulated once *)
ServiceOutcomes ==
  [company \in Companies, horizon \in Horizons, f \in FaultsOf("service") |->
     ServicePipeline(company, horizon, f)]

RetryingOutcomes ==
  [company \in Companies, horizon \in Horizons, f \in FaultsOf("retrying") |->
     RetryingPipeline(company, horizon, f)]

ClassifierOutcomes ==
  [company \in {c : c \in {d \in Companies : IsString(d)}}, horizon \in Horizons, f \in FaultsOf("classifier"),
   answer \in ClassifierAnswers |-> ClassifierPipeline(company, horizon, f, answer)]

CompanyOutcome(variant, company, horizon, f, answer) ==
  CASE variant = "service" -> ServiceOutcomes[company, horizon, f]
    [] variant = "retrying" -> RetryingOutcomes[company, horizon, f]
    [] variant = "classifier" -> ClassifierOutcomes[company, horizon, f, answer]

-----------------------------------------------------------------------------
(* getStockRecommendation *)

ErrorResponse(message) ==
  [status |-> "error", message |-> message, recommendations |-> <<>>]

SuccessResponse(recommendations, horizon) ==
  [status |-> "success", recommendations |-> recommendations,
   metadata |-> [horizon |-> horizon]]

CompareScore_Ascending(a, b) == Minus(a.score, b.score)

(* (a, b) => b.score - a.score *)
CompareScore(a, b) == Minus(b.score, a.score)

(* (a, b) => (b.score || 0) - (a.score || 0) *)
CompareSafeScore(a, b) == Minus(OrZero(b.score), OrZero(a.score))

(* Array.prototype.sort with a comparator: a stable insertion sort *)
(* compareFn(a, b), for the two comparators of the program *)
Compare(compareFn, a, b) ==
  IF compareFn = "score" THEN CompareScore(a, b) ELSE CompareSafeScore(a, b)

Insert(sorted, x, compareFn) ==
  LET k == CHOOSE j \in 0..Len(sorted) :
             /\ \A i \in (j + 1)..Len(sorted) : Compare(compareFn, sorted[i], x).n > 0
             /\ (j = 0 \/ ~(Compare(compareFn, sorted[j], x).n > 0))
  IN SubSeq(sorted, 1, k) \o <<x>> \o SubSeq(sorted, k + 1, Len(sorted))

ArraySort(arr, compareFn) ==
  LET sorted[i \in 0..Len(arr)] ==
        IF i = 0 THEN <<>> ELSE Insert(sorted[i - 1], arr[i], compareFn)
  IN sorted[Len(arr)]

(* The companies the revision processes.  The classifier revision keeps    *)
(* the non-empty strings and upper-cases them; the others take the array   *)
(* as it is                                                                *)
validCompanies(variant, companies) ==
  IF companies.type # "array" THEN <<>>
  ELSE IF variant = "classifier"
    THEN LET strings == SelectSeq(companies.items, LAMBDA c : IsString(c) /\ Len(c.v) > 0)
         IN [i \in 1..Len(strings) |-> Str(toUpperCase(strings[i].v))]
    ELSE companies.items

Resolved(companies, horizon, response) ==
  [IdleCall EXCEPT !.pc = "resolved", !.companies = companies, !.horizon = horizon,
                   !.response = response]

(* getStockRecommendation(companies, horizon) up to its first await *)
StartCall(e, companies, horizon) ==
  IF e.variant = "classifier" /\ ~e.HF_API_KEY
    THEN Resolved(companies, horizon, defaultSentiment)
  ELSE LET valid == validCompanies(e.variant, companies)
       IN IF Len(valid) = 0
            THEN Resolved(companies, horizon, ErrorResponse("No valid companies provided"))
            ELSE [IdleCall EXCEPT !.pc = "pending", !.companies = companies,
                                  !.horizon = horizon, !.valid = valid,
                                  !.results = [i \in 1..Len(valid) |-> Pending],
                                  !.obs = [i \in 1..Len(valid) |-> NoObject]]

CompanyCatch_Rethrow(error) == Rejected(error)

(* catch (error) { console.error(...); return null; } of the callback *)
CompanyCatch(error) == Fulfilled(NoObject)

(* After Promise.all: drop the nulls, sort, wrap; the outer catch turns a  *)
(* throw into the error envelope                                           *)
Respond(variant, horizon, results) ==
  LET all == PromiseAll(results)
  IN IF all.settled = "rejected" THEN ErrorResponse(all.reason)
     ELSE LET validRecommendations == SelectSeq(all.value, LAMBDA r : r # NoObject)
          IN IF variant = "retrying" /\ Len(validRecommendations) = 0
               THEN ErrorResponse(
                      "Could not generate recommendations for any of the provided stocks")
               ELSE SuccessResponse(ArraySort(validRecommendations, "score"), horizon)

(* A direct call of getStockRecommendation *)
GetStockRecommendation(companies, horizon) ==
  /\ ui.pc = "none"
  /\ call.pc = "idle"
  /\ call' = StartCall(env, companies, horizon)
  /\ UNCHANGED <<env, ui, faults, fetches>> /\ UNCHANGED cacheVars

(* The callback of company i runs to its end, under some fault pattern     *)
(* and, in the classifier revision, some answer of the classifier          *)
CompanyCompletes(i) ==
  /\ call.pc = "pending"
  /\ i \in 1..Len(call.valid)
  /\ call.results[i] = Pending
  /\ \E f \in FaultsOf(env.variant), answer \in IF env.variant = "classifier" THEN ClassifierAnswers ELSE {"none"} :
       /\ faults + FaultCount(f) <= MaxFaults
       /\ faults' = faults + FaultCount(f)
       /\ LET Ran(out) ==
                [call EXCEPT !.results[i] = IF out.promise.settled = "rejected"
                                              THEN CompanyCatch(out.promise.reason)
                                              ELSE out.promise,
                             !.obs[i] = out.obs,
                             !.invoked = @ \cup out.invoked]
          IN call' = Ran(CompanyOutcome(env.variant, call.valid[i], call.horizon, f,
                                              answer))
  /\ UNCHANGED <<env, ui, fetches>> /\ UNCHANGED cacheVars

(* Promise.all settles and getStockRecommendation returns *)
PromiseAllSettles ==
  /\ call.pc = "pending"
  /\ \A i \in 1..Len(call.valid) : call.results[i] # Pending
  /\ call' = [call EXCEPT !.pc = "resolved",
                          !.response = Respond(env.variant, call.horizon, call.results)]
  /\ UNCHANGED <<env, ui, faults, fetches>> /\ UNCHANGED cacheVars

-----------------------------------------------------------------------------
(* handleSubmit *)

BATCH_SIZE == 5

(* response?.recommendations?.length > 0 *)
HasRecommendations(response) ==
  "recommendations" \in DOMAIN response /\ Len(response.recommendations) > 0

TickerArray(tickers) == Array([i \in 1..Len(tickers) |-> Str(tickers[i])])

(* What the handler does next: its new locals, and the tickers it calls    *)
(* getStockRecommendation with, if it calls                                *)
Continue(u, next) == [ui |-> u, next |-> next]

Finished(u) == Continue([u EXCEPT !.pc = "done"], <<>>)

(* The start of one pass of the retry loop *)
Attempt(u) ==
  IF Len(u.tickers) > BATCH_SIZE
    THEN Continue([u EXCEPT !.pc = "awaitBatch", !.i = 0, !.allRecommendations = <<>>],
                  Slice(u.tickers, 0, BATCH_SIZE))
    ELSE Continue([u EXCEPT !.pc = "awaitAll"], u.tickers)

(* After the loop: route to the recommendations, or show the error *)
AfterLoop(u) ==
  IF ~HasRecommendations(u.recommendationsData)
    THEN Finished([u EXCEPT !.error =
           "Could not get recommendations for the provided stock tickers. Try different symbols."])
    ELSE Finished([u EXCEPT !.routed = u.recommendationsData])

(* catch (err) inside the loop, then retryCount++ and the loop condition *)
Caught(u, message) ==
  IF u.retryCount = MAX_RETRIES THEN Finished([u EXCEPT !.error = message])
  ELSE LET v == [u EXCEPT !.retryCount = @ + 1]
       IN IF v.retryCount <= MAX_RETRIES /\ v.recommendationsData = NoObject
            THEN Attempt(v)
            ELSE AfterLoop(v)

(* A batch has returned *)
AfterBatch(u, batchResponse) ==
  LET allRecommendations ==
        IF HasRecommendations(batchResponse)
          THEN u.allRecommendations \o batchResponse.recommendations
          ELSE u.allRecommendations
      i == u.i + BATCH_SIZE
  IN IF i < Len(u.tickers)
       THEN Continue([u EXCEPT !.i = i, !.allRecommendations = allRecommendations],
                     Slice(u.tickers, i, BATCH_SIZE))
     ELSE IF Len(allRecommendations) > 0
       THEN AfterLoop([u EXCEPT !.i = i, !.allRecommendations = allRecommendations,
                                !.recommendationsData =
                                  SuccessResponse(ArraySort(allRecommendations, "safeScore"),
                                                  u.investingHorizon)])
     ELSE Caught([u EXCEPT !.i = i, !.allRecommendations = allRecommendations],
                 "Could not get recommendations for any of the provided tickers")

(* The single call for at most BATCH_SIZE tickers has returned *)
AfterAll(u, response) ==
  LET v == [u EXCEPT !.recommendationsData = response]
  IN IF HasRecommendations(response) THEN AfterLoop(v)
     ELSE Caught(v, "No recommendations received from the service")

(* handleSubmit up to its first await *)
HandleSubmit ==
  /\ ui.pc = "idle"
  /\ LET step == Attempt([ui EXCEPT !.retryCount = 0, !.recommendationsData = NoObject,
                                    !.error = NULL])
     IN /\ ui' = step.ui
        /\ call' = StartCall(env, TickerArray(step.next), ui.investingHorizon)
  /\ UNCHANGED <<env, faults, fetches>> /\ UNCHANGED cacheVars

(* The awaited getStockRecommendation has resolved: the handler runs to    *)
(* its next await or to its end                                            *)
GetStockRecommendationReturns ==
  /\ ui.pc \in {"awaitBatch", "awaitAll"}
  /\ call.pc = "resolved"
  /\ LET step == IF ui.pc = "awaitBatch" THEN AfterBatch(ui, call.response)
                                         ELSE AfterAll(ui, call.response)
     IN /\ ui' = step.ui
        /\ call' = IF step.ui.pc = "done" THEN call
                   ELSE StartCall(env, TickerArray(step.next), ui.investingHorizon)
  /\ UNCHANGED <<env, faults, fetches>> /\ UNCHANGED cacheVars

-----------------------------------------------------------------------------
(* The orchestrator and the submit handler *)

Envs ==
  {Env("service", TRUE), Env("retrying", TRUE), Env("classifier", TRUE),
   Env("classifier", FALSE)}

Init ==
  /\ storage = [k \in CacheKeys |-> Absent]
  /\ now = 0
  /\ ticks = 0
  /\ sfaults = 0
  /\ calls = [p \in Callers |-> NoCall]
  /\ env \in Envs
  /\ call = IdleCall
  /\ faults = 0
  /\ fetches = <<>>
  /\ ui \in {NoUI} \cup {[NoUI EXCEPT !.pc = "idle", !.tickers = t, !.investingHorizon = h] :
                           t \in TickerLists, h \in Horizons}

Next ==
  \/ \E input \in DirectInputs : GetStockRecommendation(input[1], input[2])
  \/ \E i \in 1..Len(call.valid) : CompanyCompletes(i)
  \/ PromiseAllSettles
  \/ HandleSubmit
  \/ GetStockRecommendationReturns

Spec == Init /\ [][Next]_vars

(* Direct calls of getStockRecommendation with one or two symbols, among   *)
(* them one no provider knows and one whose signals are all empty          *)
NextLive ==
  \/ \E items \in UNION {[1..n -> {Str("AAPL"), Str("FLAT"), Str("ZZZZ")}] : n \in 1..2},
        horizon \in Horizons :
         GetStockRecommendation(Array(items), horizon)
  \/ \E i \in 1..Len(call.valid) : CompanyCompletes(i)
  \/ PromiseAllSettles

(* Every provider and storage call returns or fails in the end, so a       *)
(* callback that has been started runs to its end, and Promise.all settles *)
(* once every callback has returned                                        *)
SpecLive ==
  /\ Init
  /\ [][NextLive]_vars
  /\ WF_vars(\E i \in 1..Len(call.valid) : CompanyCompletes(i))
  /\ WF_vars(PromiseAllSettles)

-----------------------------------------------------------------------------
(* The cache key of an adapter call *)

(* array.join(separator) on strings *)
RECURSIVE Join(_, _)
Join(strs, separator) ==
  IF strs = <<>> THEN ""
  ELSE IF Len(strs) = 1 THEN strs[1]
  ELSE strs[1] \o separator \o Join(Tail(strs), separator)

(* simpleHash: djb2 over the UTF-16 codes, kept to 32 bits by hash & hash, *)
(* then Math.abs(hash).toString().  A 32-bit integer is a pair of 16-bit   *)
(* halves; the loop is the composition of its steps h -> 33 * h + code,    *)
(* each step a pair (mul, add)                                             *)
simpleHash(str) ==
  LET charCodeAt(i) ==
        LET Code(ranges) ==
              CHOOSE c \in 32..126 : \E r \in ranges :
                /\ c - r[2] \in 1..Len(r[1])
                /\ SubSeq(r[1], c - r[2], c - r[2]) = SubSeq(str, i, i)
        IN Code({<<" ", 31>>, <<"%", 36>>, <<",-.", 43>>, <<"0123456789", 47>>,
                 <<UpperCaseLetters, 64>>, <<"_", 94>>, <<LowerCaseLetters, 96>>,
                 <<"|", 123>>})
      Int32(hi, lo) == [hi |-> hi % 65536, lo |-> lo % 65536]
      Mul32(a, b) ==
        LET Low(t0, t1) == t0 + (t1 % 256) * 256
            Carry(t0, t1) == (Low(t0, t1) \div 65536) + (t1 \div 256)
            Cross(p, q) == ((p % 256) * q + (((p \div 256) * q) % 256) * 256) % 65536
            Product(t0, t1) ==
              Int32(Carry(t0, t1) + Cross(a.hi, b.lo) + Cross(a.lo, b.hi), Low(t0, t1))
        IN Product((a.lo % 256) * b.lo, (a.lo \div 256) * b.lo)
      Add32(a, b) == Int32(a.hi + b.hi + ((a.lo + b.lo) \div 65536), a.lo + b.lo)
      Then(f, g) == [mul |-> Mul32(g.mul, f.mul), add |-> Add32(Mul32(g.mul, f.add), g.add)]
      RECURSIVE Steps(_, _)
      Steps(from, to) ==
        IF from > to THEN [mul |-> Int32(0, 1), add |-> Int32(0, 0)]
        ELSE IF from = to THEN [mul |-> Int32(0, 33), add |-> Int32(0, charCodeAt(from))]
        ELSE LET Halves(mid) == Then(Steps(from, mid), Steps(mid + 1, to))
             IN Halves((from + to) \div 2)
      MathAbs(hash) == IF hash.hi >= 32768 THEN (65535 - hash.hi) * 65536 + (65536 - hash.lo)
                       ELSE hash.hi * 65536 + hash.lo
      Loop(f) == Add32(Mul32(f.mul, Int32(0, 5381)), f.add)
  IN ToString(MathAbs(Loop(Steps(1, Len(str)))))

(* getCacheKey(type, identifier): the hash of the first 200 characters of  *)
(* the identifier, after the type with its "@" removed                     *)
getCacheKey(type, identifier) ==
  LET RECURSIVE RemoveAt(_)
      RemoveAt(t) ==
        IF t = "" THEN ""
        ELSE (IF SubSeq(t, 1, 1) = "@" THEN "" ELSE SubSeq(t, 1, 1))
               \o RemoveAt(SubSeq(t, 2, Len(t)))
      Key(limitedIdentifier) == "cache_" \o RemoveAt(type) \o "_" \o simpleHash(limitedIdentifier)
  IN Key(SubSeq(identifier, 1, IF Len(identifier) < 200 THEN Len(identifier) ELSE 200))

-----------------------------------------------------------------------------
(* The adapters and the lexicon analyzer with their cache.  A call is      *)
(* getCache, then, on a miss, the request and storeCache; other calls and  *)
(* the clock may run while the request is out.                             *)

MaxFetches == 2   \* adapter and analyzer calls in one behaviour

(* The arguments of a call: a symbol and, for fetchStockData, a horizon;   *)
(* for an analyzer, the snippets                                           *)
CallOf(adapter, symbol, horizon, articles) ==
  [adapter |-> adapter, symbol |-> symbol, horizon |-> horizon, articles |-> articles]

(* The empty list, two snippet lists whose joined texts agree on their     *)
(* first 200 characters and differ after them, and a list with a snippet   *)
(* for each bucket: 3 of 4 hits positive, 3 of 5, 1 of 3, none, 2 of 5     *)
SnippetLists ==
  LET SharedSnippets ==
        <<LongSummary, <<"Regulators", "open", "probe", "into", "app", "store", "fees">>>>
  IN {<<>>,
      SharedSnippets \o <<<<"strong", "growth">>>>,
      SharedSnippets \o <<<<"weak", "decline">>>>,
      <<<<"Profit", "up", "high", "despite", "risk">>,
        <<"gain", "gain", "gain", "loss", "loss">>,
        <<"weak", "sales", "poor", "outlook", "but", "growth">>,
        <<"No", "comment">>,
        <<"loss", "loss", "loss", "gain", "gain">>>>}

(* Article lists for the classifier: none; an article of 459 characters;   *)
(* articles of 350 and 100 characters; and a list with a blank article and *)
(* a padded one whose articles fill two chunks                             *)
ArticleLists ==
  LET Words(n) == [i \in 1..n |-> IF i = n THEN "profitable" ELSE "dividends"]
  IN {<<>>,
      <<[i \in 1..46 |-> "dividends"]>>,
      <<Words(35), Words(10)>>,
      <<Words(10), <<"", "">>, <<"", "Apple", "up", "">>, Words(35)>>}

AdapterInputs ==
  {CallOf("fetchStockData", "AAPL", h, <<>>) : h \in Horizons}
    \cup {CallOf("fetchStockData", s, "short-term", <<>>) : s \in {"NEWB", "ZZZZ"}}
    \cup {CallOf("fetchCompanyNews", s, "", <<>>) : s \in {"AAPL", "FLAT", "ZZZZ"}}
    \cup {CallOf("fetchCompanyArticles", s, "", <<>>) : s \in {"AAPL", "TSLA"}}
    \cup {CallOf("fetchCompanyTweets", s, "", <<>>) : s \in {"NVDA"}}

(* const cacheKey = getCacheKey(...) of each call, and for the analyzer    *)
(* the aggregate of the lexicon: <<call, key, aggregate>>                  *)
cacheKeys ==
  {<<c, getCacheKey("stock", c.symbol \o "_" \o c.horizon), NoObject>> :
     c \in {x \in AdapterInputs : x.adapter = "fetchStockData"}}
    \cup {<<c, getCacheKey("news", c.symbol), NoObject>> :
            c \in {x \in AdapterInputs : x.adapter = "fetchCompanyNews"}}
    \cup {<<c, getCacheKey("wsj_articles", c.symbol), NoObject>> :
            c \in {x \in AdapterInputs : x.adapter = "fetchCompanyArticles"}}
    \cup {<<c, getCacheKey("bluesky_posts", c.symbol), NoObject>> :
            c \in {x \in AdapterInputs : x.adapter = "fetchCompanyTweets"}}
    \cup {<<CallOf("analyzeArticles", "", "", a),
            getCacheKey("sentiment", Join([i \in 1..Len(a) |-> Join(a[i], " ")], "|")),
            analyzeArticles(a)>> : a \in SnippetLists}

cacheKey(c) == LET Key(entry) == entry[2] IN Key(CHOOSE e \in cacheKeys : e[1] = c)

(* The request of an adapter and what the adapter makes of the answer *)
Request(c, fails) ==
  CASE c.adapter = "fetchStockData" -> fetchStockData(Str(c.symbol), c.horizon, fails)
    [] c.adapter = "fetchCompanyNews" -> fetchCompanyNews(Str(c.symbol), fails)
    [] c.adapter = "fetchCompanyArticles" -> fetchCompanyArticles(Str(c.symbol), fails)
    [] c.adapter = "fetchCompanyTweets" -> fetchCompanyTweets(Str(c.symbol), fails)

(* getCache(key) as one step, at time t.  how: the storage calls resolve,  *)
(* or getItem rejects, or removeItem rejects                               *)
getCache(st, key, t, how) ==
  LET Checked(b) ==
        CASE b.do = "return" -> [value |-> b.value, path |-> b.path, storage |-> st]
          [] b.do = "throw" ->
               [value |-> GetCacheCatch(b.value), path |-> b.path, storage |-> st]
          [] b.do = "remove" ->
               IF how = "remove-error"
                 THEN [value |-> GetCacheCatch(THROWN), path |-> "remove-error",
                       storage |-> st]
                 ELSE [value |-> b.value, path |-> b.path, storage |-> RemoveItem(st, key)]
  IN IF how = "read-error"
       THEN [value |-> GetCacheCatch(THROWN), path |-> "read-error", storage |-> st]
       ELSE Checked(GetCacheBody(st[key], t))

(* storeCache(key, data) as one step, at time t.  how: setItem resolves or *)
(* rejects                                                                 *)
storeCache(st, key, data, t, how) ==
  IF how = "write-error" THEN st ELSE SetItem(st, key, JSONstringify(data, t))

ReturnCached_Never(cached) == FALSE

(* if (cached) return cached: what getCache found is an object or an       *)
(* array, which is truthy; null on every other path                        *)
ReturnCached(cached) == cached.path = "hit"

StoresResult_Never(adapter, promise) == FALSE

StoresResult_Always(adapter, promise) == TRUE

(* The paths of an adapter that reach storeCache: the request succeeded    *)
(* and the payload was valid; for fetchStockData it also had 5 closes      *)
StoresResult(adapter, promise) ==
  /\ promise.settled = "fulfilled" /\ ~promise.failed
  /\ adapter = "fetchStockData" => promise.value # NoObject

(* A call in the log: its arguments and key, the calls that had returned   *)
(* when it was made, where it is, and when it has returned: the value, the *)
(* requests it made, where the value came from, whether the cache read and *)
(* write went through, and what the store held under its key when it was   *)
(* called and when it returned                                             *)
Fetch(c, key, fs, t) ==
  [adapter |-> c.adapter, symbol |-> c.symbol, horizon |-> c.horizon,
   articles |-> c.articles, key |-> key, pc |-> "request",
   after |-> {i \in 1..Len(fs) : fs[i].pc = "done"}, at |-> t, value |-> NoObject, requests |-> 0, from |-> "none", read |-> "none",
   failed |-> FALSE, writeFailed |-> FALSE,
   found |-> IF key \in DOMAIN storage THEN storage[key] ELSE Absent, held |-> Absent,
   chunks |-> <<>>]

Returns(f, value, from, read, failed, writeFailed, st) ==
  [f EXCEPT !.pc = "done", !.value = value, !.from = from, !.read = read,
            !.requests = IF from = "network" THEN 1 ELSE 0,
            !.failed = failed, !.writeFailed = writeFailed, !.held = st[f.key]]

(* An adapter is called: it reads the cache and returns what it finds, or  *)
(* sends its request                                                       *)
AdapterCall(c, how) ==
  /\ Len(fetches) < MaxFetches
  /\ how # "ok" => sfaults < MaxStorageFaults
  /\ LET Read(f, cached) ==
           /\ how = "remove-error" => cached.path = "remove-error"
           /\ storage' = cached.storage
           /\ fetches' =
                Append(fetches,
                       IF ReturnCached(cached)
                         THEN Returns(f, cached.value, "cache", cached.path, FALSE, FALSE,
                                      cached.storage)
                         ELSE [f EXCEPT !.read = cached.path])
     IN Read(Fetch(c, cacheKey(c), fetches, now),
             getCache(storage, cacheKey(c), now, how))
  /\ sfaults' = IF how = "ok" THEN sfaults ELSE sfaults + 1
  /\ UNCHANGED <<now, ticks, calls, env, call, ui, faults>>

(* The request of a call settles: the adapter stores and returns what it   *)
(* made of the answer, or returns null or [] from its error path           *)
AdapterResponds(i, fails, how) ==
  /\ fetches[i].pc = "request"
  /\ fails => faults < MaxFaults
  /\ LET Settled(f, promise) ==
           /\ how = "write-error" =>
                StoresResult(f.adapter, promise) /\ sfaults < MaxStorageFaults
           /\ LET Stored(st) ==
                    /\ storage' = st
                    /\ fetches' =
                         [fetches EXCEPT ![i] =
                            Returns(f, promise.value, "network", f.read, promise.failed,
                                    how = "write-error", st)]
              IN Stored(IF StoresResult(f.adapter, promise)
                          THEN storeCache(storage, f.key, promise.value, now, how)
                          ELSE storage)
     IN Settled(fetches[i], Request(fetches[i], fails))
  /\ faults' = IF fails THEN faults + 1 ELSE faults
  /\ sfaults' = IF how = "ok" THEN sfaults ELSE sfaults + 1
  /\ UNCHANGED <<now, ticks, calls, env, call, ui>>

(* analyzeArticles(articles) with its cache: the default on an empty list  *)
(* before any key is built; else what the cache holds under the key, else  *)
(* the aggregate of the lexicon, which it stores                           *)
AnalyzeArticlesCall(articles, read, write) ==
  /\ Len(fetches) < MaxFetches
  /\ (IF read = "ok" THEN 0 ELSE 1) + (IF write = "ok" THEN 0 ELSE 1)
       <= MaxStorageFaults - sfaults
  /\ LET c == CallOf("analyzeArticles", "", "", articles)
         Aggregate(x) == (CHOOSE e \in cacheKeys : e[1] = x)[3]
         Done(f, value, from, path, st) ==
           /\ storage' = st
           /\ fetches' = Append(fetches,
                                [Returns(f, value, from, path, FALSE, write = "write-error",
                                         st)
                                   EXCEPT !.requests = 0])
         Read(f, cached) ==
           /\ read = "remove-error" => cached.path = "remove-error"
           /\ IF ReturnCached(cached)
                THEN /\ write = "ok"
                     /\ Done(f, cached.value, "cache", cached.path, cached.storage)
                ELSE Done(f, Aggregate(c), "lexicon", cached.path,
                          storeCache(cached.storage, f.key, Aggregate(c), now, write))
     IN IF Len(articles) = 0
          THEN /\ read = "ok" /\ write = "ok"
               /\ Done(Fetch(c, cacheKey(c), fetches, now), Aggregate(c),
                       "default", "none", storage)
          ELSE Read(Fetch(c, cacheKey(c), fetches, now),
                    getCache(storage, cacheKey(c), now, read))
  /\ sfaults' = sfaults + (IF read = "ok" THEN 0 ELSE 1) + (IF write = "ok" THEN 0 ELSE 1)
  /\ UNCHANGED <<now, ticks, calls, env, call, ui, faults>>

(* analyzeSentiment(articles) of the classifier revision: its cache read   *)
(* is commented out, so the call is the request alone                      *)
AnalyzeSentimentCall(articles, answer) ==
  /\ Len(fetches) < MaxFetches
  /\ LET c == CallOf("analyzeSentiment", "", "", articles)
         f == Fetch(c, "", fetches, now)
     IN fetches' = Append(fetches,
                          [f EXCEPT !.pc = "done", !.value = analyzeSentimentHF(articles, answer),
                                    !.chunks = chunks(articles),
                                    !.from = IF Len(articles) = 0 THEN "default" ELSE answer,
                                    !.failed = (answer = "error"),
                                    !.requests = Len(chunks(articles))])
  /\ UNCHANGED <<storage, now, ticks, sfaults, calls, env, call, ui, faults>>

InitAdapter ==
  /\ storage = [k \in {e[2] : e \in cacheKeys} |-> Absent]
  /\ now = 0
  /\ ticks = 0
  /\ sfaults = 0
  /\ calls = [p \in Callers |-> NoCall]
  /\ env = Env("service", TRUE)
  /\ call = IdleCall
  /\ ui = NoUI
  /\ faults = 0
  /\ fetches = <<>>

NextAdapter ==
  \/ \E c \in AdapterInputs, how \in {"ok", "read-error", "remove-error"} : AdapterCall(c, how)
  \/ \E i \in 1..Len(fetches), fails \in BOOLEAN, how \in {"ok", "write-error"} :
       AdapterResponds(i, fails, how)
  \/ \E articles \in SnippetLists, read \in {"ok", "read-error", "remove-error"},
        write \in {"ok", "write-error"} : AnalyzeArticlesCall(articles, read, write)
  \/ \E articles \in ArticleLists, answer \in ClassifierAnswers :
       AnalyzeSentimentCall(articles, answer)
  \/ Tick(CACHE_TTL)

SpecAdapter == InitAdapter /\ [][NextAdapter]_vars

-----------------------------------------------------------------------------
(* Claims about getStockRecommendation and handleSubmit, checked under     *)
(* Spec                                                                    *)

(* A RecommendationResponse: a status and an array of recommendations *)
WellFormed(response) ==
  /\ {"status", "recommendations"} \subseteq DOMAIN response
  /\ response.status \in {"success", "error"}

(* companies is a non-empty array of strings *)
ValidInput(companies) ==
  /\ companies.type = "array"
  /\ Len(companies.items) > 0
  /\ \A i \in 1..Len(companies.items) : IsString(companies.items[i])

SortedDescending(recommendations) ==
  \A i \in 1..(Len(recommendations) - 1) :
    ~Less(recommendations[i].score, recommendations[i + 1].score)

(* The callback of company i has run and returned a recommendation *)
Succeeds(i) ==
  /\ call.results[i].settled = "fulfilled"
  /\ call.results[i].value # NoObject

(* The callback of company i has run, and its statistics were unavailable  *)
(* on every attempt or its body threw                                      *)
Failing(i) ==
  /\ call.results[i] # Pending
  /\ (call.obs[i].stock = NoObject \/ call.obs[i].threw)

(* The callback of company i has run with valid statistics *)
HasStatistics(i) ==
  /\ call.results[i] # Pending
  /\ ~call.obs[i].threw
  /\ call.obs[i].stock # NoObject

(* The results of the batch without the failing companies *)
WithoutFailing ==
  LET entries == [i \in 1..Len(call.valid) |-> [i |-> i, result |-> call.results[i]]]
      kept == SelectSeq(entries, LAMBDA e : ~Failing(e.i))
  IN [k \in 1..Len(kept) |-> kept[k].result]

(* The signal sources a revision reads *)
SourcesOf(variant) ==
  CASE variant = "service" -> {"news", "articles"}
    [] variant = "retrying" -> Sources
    [] variant = "classifier" -> {"news"}

(* The snippets of what a source returns when its request succeeds *)
TextsOf(source, company) ==
  CASE source = "news" -> newsTexts(fetchCompanyNews(company, FALSE).value)
    [] source = "articles" -> articleTexts(fetchCompanyArticles(company, FALSE).value)
    [] source = "tweets" -> tweetTexts(fetchCompanyTweets(company, FALSE).value)

SucceededTexts(variant, company, failed) ==
  LET texts(source) ==
        IF source \in SourcesOf(variant) \ failed THEN TextsOf(source, company) ELSE <<>>
  IN texts("news") \o texts("articles") \o texts("tweets")

(* C1, as stated: whatever the input, the failures and the configuration,  *)
(* in every revision, the value getStockRecommendation resolves with has   *)
(* status "success" or "error" and an array of recommendations.            *)
C1_AlwaysWellFormed ==
  call.pc = "resolved" => WellFormed(call.response)

(* C2, as stated: a direct call whose companies argument is not a          *)
(* non-empty array of strings has returned, with the error envelope        *)
(* "No valid companies provided", and no adapter was invoked.  The         *)
(* configuration has the classifier key, so that the early return of C1    *)
(* is not what is observed.                                                *)
C2_InvalidInputRejected ==
  (ui.pc = "none" /\ call.pc # "idle" /\ env.HF_API_KEY /\ ~ValidInput(call.companies))
    => /\ call.pc = "resolved"
       /\ call.response = ErrorResponse("No valid companies provided")
       /\ call.invoked = {}

C4_StarvedCompanyKept ==
  \A i \in 1..Len(call.valid) :
    (env.variant \in {"service", "retrying"} /\ HasStatistics(i) /\ call.obs[i].nonEmpty = {})
      => /\ Succeeds(i)
         /\ call.results[i].value.details.components.sentiment_score = Whole(50)
         /\ call.results[i].value.details.sentiment.total = 1
         /\ call.results[i].value.details.sentiment.score = Frac(1, 2)

(* C5, as stated: when the input is a non-empty list of symbols and every  *)
(* callback yielded null, the response has status "error", no              *)
(* recommendations and a message.                                          *)
C5_NoEmptySuccess ==
  (/\ call.pc = "resolved"
   /\ ValidInput(call.companies)
   /\ Len(call.valid) > 0
   /\ \A i \in 1..Len(call.valid) : call.results[i] = Fulfilled(NoObject))
    => /\ call.response.status = "error"
       /\ call.response.recommendations = <<>>
       /\ "message" \in DOMAIN call.response

(* C6: in a batch where some company succeeds, the response has status     *)
(* "success"; a company whose statistics were unavailable or whose         *)
(* callback threw contributes nothing and, unless another entry of the     *)
(* batch names it too, is in no recommendation; and the response is the    *)
(* one the batch without the failing companies gives.                      *)
C6_SingleCompanyIsolation ==
  (call.pc = "resolved" /\ \E j \in 1..Len(call.valid) : Succeeds(j))
    => /\ call.response.status = "success"
       /\ \A i \in 1..Len(call.valid) :
            Failing(i) =>
              /\ call.results[i] = Fulfilled(NoObject)
              /\ (\A j \in 1..Len(call.valid) : ~Failing(j) => call.valid[j] # call.valid[i])
                   => \A k \in 1..Len(call.response.recommendations) :
                        call.response.recommendations[k].company # call.valid[i].v
       /\ call.response = Respond(env.variant, call.horizon, WithoutFailing)

(* C6's case: the callback of one company threw, another company          *)
(* succeeded, and the call returned with the one recommendation            *)
C6_Witness ==
  /\ call.pc = "resolved"
  /\ \E i \in 1..Len(call.valid) : call.obs[i].threw
  /\ \E j \in 1..Len(call.valid) : Succeeds(j)
  /\ Len(call.response.recommendations) = 1

(* C7: a company with valid statistics, one of whose signal sources failed *)
(* while another returned items, yields a recommendation, and the analyzer *)
(* ran on the snippets of the sources that did not fail, in the order      *)
(* news, articles, posts: the first 100 characters of each news summary,   *)
(* the text of each article and post.                                      *)
C7_PartialSourceResilience ==
  \A i \in 1..Len(call.valid) :
    (HasStatistics(i) /\ call.obs[i].failed # {} /\ call.obs[i].nonEmpty # {})
      => /\ Succeeds(i)
         /\ call.obs[i].ran
         /\ call.obs[i].analyzed =
              SucceededTexts(env.variant, call.valid[i], call.obs[i].failed)

(* C7's case: the news request failed, the articles came, and the analyzer *)
(* ran on them                                                             *)
C7_Witness ==
  \E i \in 1..Len(call.valid) :
    /\ HasStatistics(i)
    /\ call.obs[i].failed = {"news"}
    /\ "articles" \in call.obs[i].nonEmpty
    /\ call.obs[i].ran
    /\ Len(call.obs[i].analyzed) > 0
    /\ Succeeds(i)

-----------------------------------------------------------------------------
(* Claims about the cache store, checked under SpecCache *)

(* The item is the text storeCache writes: JSON of {data, timestamp} *)
IsStoredEntry(raw) ==
  /\ raw.kind = "json"
  /\ raw.value.t = "object"
  /\ DOMAIN raw.value = {"t", "data", "timestamp"}

AgeOf(raw) == now - raw.value.timestamp

(* Caller p's getCache call returns in this step *)
GetCacheReturns(p) ==
  /\ calls[p].op = "getCache"
  /\ calls[p].pc # "done"
  /\ calls'[p].pc = "done"

(* C8, as stated: a getCache that read an entry older than CACHE_TTL       *)
(* returns null, and when it returns the key is absent from the storage.   *)
C8_ExpiredEntryIsGone ==
  [][\A p \in Callers :
       (GetCacheReturns(p) /\ IsStoredEntry(calls[p].cached)
          /\ AgeOf(calls[p].cached) > CACHE_TTL)
       => (calls'[p].result = NULL /\ storage'[calls[p].key] = Absent)]_vars

(* C8, amended: a getCache that read an entry older than CACHE_TTL returns *)
(* null, never the stale data; when it returns the key is absent from the  *)
(* storage unless the removeItem call itself failed.                       *)
C8_ExpiredEntryIsGoneUnlessRemoveFails ==
  [][\A p \in Callers :
       (GetCacheReturns(p) /\ IsStoredEntry(calls[p].cached)
          /\ AgeOf(calls[p].cached) > CACHE_TTL)
       => /\ calls'[p].result = NULL
          /\ \/ storage'[calls[p].key] = Absent
             \/ calls'[p].path = "remove-error"]_vars

C8_Witness ==
  \E p \in Callers :
    /\ calls[p].op = "getCache" /\ calls[p].pc = "done"
    /\ calls[p].path = "expired" /\ calls[p].result = NULL
    /\ storage[calls[p].key] = Absent
    /\ now > CACHE_TTL

(* C9: a getCache that read an entry whose age is at most CACHE_TTL        *)
(* returns the entry's data and leaves the storage as it is, data and      *)
(* timestamp; no step of a getCache call before its removeItem writes.     *)
C9_ReadBeforeExpiryChangesNothing ==
  [][\A p \in Callers :
       /\ (calls[p].op = "getCache" /\ calls[p].pc = "check"
             /\ calls'[p] # calls[p]
             /\ IsStoredEntry(calls[p].cached)
             /\ AgeOf(calls[p].cached) <= CACHE_TTL)
          => /\ calls'[p].pc = "done"
             /\ calls'[p].result = calls[p].cached.value.data
             /\ storage' = storage
       /\ (calls[p].op = "getCache" /\ calls[p].pc = "getItem"
             /\ calls'[p] # calls[p])
          => storage' = storage]_vars

C9_Witness ==
  \E p \in Callers :
    /\ calls[p].op = "getCache" /\ calls[p].pc = "done"
    /\ calls[p].path = "hit" /\ calls[p].result \in CacheData
    /\ IsStoredEntry(storage[calls[p].key])
    /\ storage[calls[p].key].value.data = calls[p].result
    /\ AgeOf(storage[calls[p].key]) = CACHE_TTL

(* The item read is a text that is neither empty nor what storeCache writes *)
IsForeignText(raw) == ~Falsy(raw) /\ ~IsStoredEntry(raw)

(* C10, as stated: when the item cannot be deserialized (it is not JSON,   *)
(* or not of the {data, timestamp} shape) or the read fails, getCache      *)
(* returns null.                                                           *)
C10_FailsOpenToNull ==
  [][\A p \in Callers :
       (GetCacheReturns(p)
          /\ \/ calls[p].pc = "getItem"
             \/ calls[p].pc = "check" /\ IsForeignText(calls[p].cached))
       => calls'[p].result = NULL]_vars

(* C10, amended: getCache never throws; it returns null when the item is   *)
(* not JSON, when it is the JSON null and when the read fails.  A JSON     *)
(* object of another shape is not rejected: without a timestamp it never   *)
(* expires and getCache returns its data field, undefined when it has none.*)
C10_FailsOpenOnParseAndReadErrors ==
  [][\A p \in Callers :
       GetCacheReturns(p) =>
         /\ calls'[p].result # THROWN
         /\ (calls[p].pc = "getItem") => calls'[p].result = NULL
         /\ (calls[p].pc = "check" /\ calls[p].cached \in {Malformed, JsonText(JsonNull)})
              => calls'[p].result = NULL
         /\ (calls[p].pc = "check" /\ calls[p].cached = JsonText(NoFields))
              => calls'[p].result = UNDEFINED
         /\ \A d \in CacheData :
              (calls[p].pc = "check" /\ calls[p].cached = JsonText(NoTimestamp(d)))
                => calls'[p].result = d]_vars

C10_Witness ==
  \E p, q \in Callers :
    /\ calls[p].op = "getCache" /\ calls[p].pc = "done"
    /\ calls[p].path = "parse-error" /\ calls[p].result = NULL
    /\ calls[q].op = "getCache" /\ calls[q].pc = "done"
    /\ calls[q].path = "read-error" /\ calls[q].result = NULL

-----------------------------------------------------------------------------
(* Claims about the adapters and analyzers with their cache, checked under *)
(* SpecAdapter                                                             *)

HasReturned(f) == f.pc = "done"

IsAdapter(f) == f.adapter \notin {"analyzeArticles", "analyzeSentiment"}

SameCall(f, g) ==
  /\ f.adapter = g.adapter /\ f.symbol = g.symbol /\ f.horizon = g.horizon
  /\ f.articles = g.articles

(* Call j is the same adapter call as call i, made after i returned and    *)
(* no more than CACHE_TTL after i was made                                 *)
CalledTwice(i, j) ==
  /\ i < j
  /\ IsAdapter(fetches[i]) /\ SameCall(fetches[i], fetches[j])
  /\ HasReturned(fetches[i]) /\ HasReturned(fetches[j])
  /\ i \in fetches[j].after
  /\ fetches[j].at - fetches[i].at <= CACHE_TTL

(* When call i returned, the store held its value in an entry that is no   *)
(* older than CACHE_TTL when call j is made                                *)
HeldUntil(i, j) ==
  /\ IsStoredEntry(fetches[i].held)
  /\ fetches[i].held.value.data = fetches[i].value
  /\ fetches[j].at - fetches[i].held.value.timestamp <= CACHE_TTL

(* C11, as stated: an adapter called twice with the same arguments within  *)
(* CACHE_TTL returns the same data both times, and the second call makes   *)
(* no network request.                                                     *)
C11_AdapterIdempotent ==
  \A i, j \in 1..Len(fetches) :
    CalledTwice(i, j) =>
      /\ fetches[j].value = fetches[i].value
      /\ fetches[j].requests = 0

(* C11, amended: the second call returns the first call's data without a   *)
(* network request when the store held that data as the first call         *)
(* returned, the entry is no older than CACHE_TTL at the second call, and  *)
(* the second call's cache read does not fail.  A null or failed result is *)
(* never stored, and a failed cache write or read is only logged, so in    *)
(* those cases the second call sends its request again.                    *)
C11_IdempotentOnceCached ==
  \A i, j \in 1..Len(fetches) :
    (CalledTwice(i, j) /\ HeldUntil(i, j) /\ fetches[j].read # "read-error") =>
      /\ fetches[j].value = fetches[i].value
      /\ fetches[j].requests = 0

C11_Witness ==
  \E i, j \in 1..Len(fetches) :
    /\ CalledTwice(i, j) /\ HeldUntil(i, j)
    /\ fetches[i].from = "network" /\ fetches[i].requests = 1
    /\ fetches[j].from = "cache" /\ fetches[j].requests = 0
    /\ fetches[j].at = fetches[i].at + CACHE_TTL
    /\ fetches[j].value = fetches[i].value

(* The value is a non-empty sequence or non-null statistics *)
NonEmptyValue(f) ==
  IF f.adapter = "fetchStockData" THEN f.value # NoObject ELSE Len(f.value) > 0

(* The call returned a non-empty value that it obtained from the network *)
FetchedNonEmpty(f) ==
  /\ IsAdapter(f) /\ HasReturned(f)
  /\ f.from = "network" /\ ~f.failed
  /\ NonEmptyValue(f)

HeldValue(f) == IsStoredEntry(f.held) /\ f.held.value.data = f.value

(* C12, as stated: whenever an adapter returns a non-empty sequence or     *)
(* non-null statistics that it obtained from the network, the cache holds, *)
(* at the moment it returns, an entry under the adapter's key for the      *)
(* symbol whose data is the returned value.                                *)
C12_SuccessfulFetchCached ==
  \A i \in 1..Len(fetches) : FetchedNonEmpty(fetches[i]) => HeldValue(fetches[i])

(* C12, amended: the same, unless AsyncStorage.setItem rejected the write: *)
(* storeCache logs that failure and the adapter still returns the value,   *)
(* which the cache then does not hold.                                     *)
C12_SuccessfulFetchCachedUnlessWriteFails ==
  \A i \in 1..Len(fetches) :
    (FetchedNonEmpty(fetches[i]) /\ ~fetches[i].writeFailed) => HeldValue(fetches[i])

C12_Witness ==
  \E i \in 1..Len(fetches) :
    /\ FetchedNonEmpty(fetches[i]) /\ ~fetches[i].writeFailed
    /\ fetches[i].adapter = "fetchCompanyNews" /\ Len(fetches[i].value) = 2
    /\ storage[fetches[i].key] = JSONstringify(fetches[i].value, now)

(* The closes the provider has for the call, and whether its answer has    *)
(* the nested fields                                                       *)
TooFewCloses(f) ==
  LET Answer(chart) == chart.kind # "chart" \/ chart.closes < 5
  IN Answer(YahooChart(f.symbol, Range(f.horizon)))

(* C19: fetchStockData returns null when fewer than 5 closes remain or the *)
(* answer lacks the nested fields, and every statistics object it returns, *)
(* computed or served from the cache, has data_points >= 5.                *)
C19_NullUnderFiveCloses ==
  \A i \in 1..Len(fetches) :
    (fetches[i].adapter = "fetchStockData" /\ HasReturned(fetches[i])) =>
      /\ TooFewCloses(fetches[i]) => fetches[i].value = NoObject
      /\ fetches[i].value # NoObject => fetches[i].value.data_points >= 5

C19_Witness ==
  \E i, j \in 1..Len(fetches) :
    /\ fetches[i].adapter = "fetchStockData" /\ HasReturned(fetches[i])
    /\ fetches[i].from = "cache" /\ fetches[i].value.data_points >= 5
    /\ fetches[j].adapter = "fetchStockData" /\ HasReturned(fetches[j])
    /\ fetches[j].from = "network" /\ ~fetches[j].failed

NeutralDefault ==
  [score |-> Frac(1, 2), positive |-> 0, negative |-> 0, neutral |-> 1, total |-> 1]

(* C17: the sentiment analyzer called with an empty snippet list returns   *)
(* {score: 0.5, positive: 0, negative: 0, neutral: 1, total: 1}, and so    *)
(* does the external-classifier analyzer on empty input and on failure.    *)
C17_NeutralDefault ==
  \A i \in 1..Len(fetches) :
    (~IsAdapter(fetches[i]) /\ HasReturned(fetches[i])
       /\ (fetches[i].articles = <<>> \/ fetches[i].failed))
    => fetches[i].value = NeutralDefault

(* C18: analyzeArticles(X) returns the aggregate of X's own snippets,      *)
(* whatever analyzeArticles calls came before it.                          *)
C18_LexiconDeterministic ==
  \A i \in 1..Len(fetches) :
    (fetches[i].adapter = "analyzeArticles" /\ HasReturned(fetches[i])) =>
      \A e \in cacheKeys :
        e[1] = CallOf("analyzeArticles", "", "", fetches[i].articles) =>
          fetches[i].value = e[3]

-----------------------------------------------------------------------------
(* Claims about the retries, the scoring and the rationale, checked under  *)
(* Spec                                                                    *)

(* The callback of company i has run *)
HasRun(i) == call.results[i] # Pending

(* Of the requests sent, the leading ones failed: a failed request was     *)
(* followed by another unless it was the third, and no fourth was sent     *)
RetriedUpToThree(sent, failed) ==
  /\ sent <= 3
  /\ (sent > 0 /\ failed = sent) => sent = 3

(* C13, as stated: within one call, a request to the market-data provider  *)
(* that fails for a company is sent again, up to 3 attempts in total and   *)
(* never more; the same for the request to the news provider.              *)
C13_RetriedUpToThreeAttempts ==
  \A i \in 1..Len(call.valid) :
    HasRun(i) =>
      /\ RetriedUpToThree(call.obs[i].requests.stock, call.obs[i].requests.stockFailed)
      /\ RetriedUpToThree(call.obs[i].requests.news, call.obs[i].requests.newsFailed)

Clamp(x) ==
  IF Less(x, Whole(0)) THEN Whole(0) ELSE IF Less(Whole(100), x) THEN Whole(100) ELSE x

(* The components as the formula gives them *)
StatedComponents(stock, sentiment) ==
  [recent_performance |->
     Clamp(Times(Over(Plus(stock.recent_growth, Whole(20)), Whole(40)), Whole(100))),
   historical_growth |->
     Clamp(Times(Over(Plus(stock.historical_growth, Whole(50)), Whole(100)), Whole(100))),
   sentiment_score |->
     IF sentiment.total > 0
       THEN Plus(Whole(50), Times(Frac(sentiment.positive - sentiment.negative,
                                       sentiment.total), Whole(50)))
       ELSE Whole(50),
   risk_factor |->
     IF Less(stock.volatility, Whole(0)) THEN Whole(0) ELSE Times(stock.volatility, Whole(100))]

(* The weighted sum under 0.4/0.2/0.3/0.1 or 0.2/0.4/0.2/0.2 *)
StatedSum(c, horizon) ==
  IF horizon = "short-term"
    THEN Over(Plus(Plus(Times(Whole(4), c.recent_performance),
                        Times(Whole(2), c.historical_growth)),
                   Plus(Times(Whole(3), c.sentiment_score), c.risk_factor)), Whole(10))
    ELSE Over(Plus(Plus(Times(Whole(2), c.recent_performance),
                        Times(Whole(4), c.historical_growth)),
                   Plus(Times(Whole(2), c.sentiment_score), Times(Whole(2), c.risk_factor))),
              Whole(10))

(* y is x rounded to one decimal *)
RoundedToOneDecimal(x, y) ==
  /\ Times(y, Whole(10)).d = 1
  /\ ~Less(Frac(1, 20), Minus(y, x)) /\ ~Less(Frac(1, 20), Minus(x, y))

(* C14, as stated: on the normal path the components are the stated remaps *)
(* of the statistics and the sentiment, risk_factor being                  *)
(* max(0, volatility * 100), and the score is their sum under the weights  *)
(* of the horizon, rounded to 1 decimal; growth 10 and 25, volatility 0.2  *)
(* and 6 positive, 2 negative of 10 give 75, 75, 70, 20 and 68.0 under     *)
(* short-term; every revision computes this function.                      *)
C14_ScoringFormula ==
  /\ \A i \in 1..Len(call.valid) :
       (Succeeds(i) /\ call.obs[i].ran) =>
         /\ call.results[i].value.details.components
              = StatedComponents(call.results[i].value.details.stock_data,
                                 call.results[i].value.details.sentiment)
         /\ RoundedToOneDecimal(StatedSum(call.results[i].value.details.components,
                                          call.horizon),
                                call.results[i].value.score)
  /\ LET Example(stockData, sentiment) ==
           LET Scores(c) ==
                 /\ c = [recent_performance |-> Whole(75), historical_growth |-> Whole(75),
                         sentiment_score |-> Whole(70), risk_factor |-> Whole(20)]
                 /\ RoundToTenth(WeightedSum(c, weights("short-term"))) = Whole(68)
           IN Scores(IF env.variant = "classifier"
                       THEN componentsHF(stockData, sentimentScore(sentiment))
                       ELSE components(stockData, sentimentScore(sentiment)))
     IN call.pc = "resolved" =>
          Example([recent_growth |-> Whole(10), historical_growth |-> Whole(25),
                   volatility |-> Frac(2, 10), data_points |-> 22],
                  [score |-> Frac(3, 4), positive |-> 6, negative |-> 2, neutral |-> 2,
                   total |-> 10])

InRange(x) == ~Less(x, Whole(0)) /\ ~Less(Whole(100), x)

(* C15, as stated: every component of every returned recommendation lies   *)
(* in [0, 100], whatever the statistics and the sentiment aggregate.       *)
C15_ComponentsInRange ==
  \A i \in 1..Len(call.valid) :
    Succeeds(i) =>
      /\ InRange(call.results[i].value.details.components.recent_performance)
      /\ InRange(call.results[i].value.details.components.historical_growth)
      /\ InRange(call.results[i].value.details.components.sentiment_score)
      /\ InRange(call.results[i].value.details.components.risk_factor)

(* The weighted sum the recommendation of company i was rounded from: the  *)
(* weights of the horizon, or those of the neutral fallback                *)
UnroundedSum(i) ==
  WeightedSum(call.results[i].value.details.components,
              IF env.variant = "retrying" /\ ~call.obs[i].ran
                THEN defaultWeights(call.horizon) ELSE weights(call.horizon))

(* C16: the score of every recommendation has one decimal, differs from    *)
(* the unrounded weighted sum by at most 0.05 and is that sum rounded with *)
(* ties going up, on every path; 62.34 gives 62.3.                         *)
C16_RoundedToOneDecimal ==
  /\ \A i \in 1..Len(call.valid) :
       Succeeds(i) =>
         /\ RoundedToOneDecimal(UnroundedSum(i), call.results[i].value.score)
         /\ ~Less(Frac(1, 20), Minus(UnroundedSum(i), call.results[i].value.score))
         /\ Less(Minus(UnroundedSum(i), call.results[i].value.score), Frac(1, 20))
  /\ call.pc = "resolved" => RoundToTenth(Frac(6234, 100)) = Frac(623, 10)

(* C16's case: a fallback recommendation and a normal one in one response, *)
(* one of them rounded up from a sum that is not a multiple of 0.1         *)
C16_Witness ==
  /\ call.pc = "resolved"
  /\ \E i \in 1..Len(call.valid) :
       /\ Succeeds(i)
       /\ Less(UnroundedSum(i), call.results[i].value.score)
  /\ \E i \in 1..Len(call.valid) :
       /\ Succeeds(i)
       /\ Less(call.results[i].value.score, UnroundedSum(i))

(* The text contains the string *)
Mentions(text, str) ==
  \E k \in 1..Len(text) : k + Len(str) - 1 <= Len(text) /\ SubSeq(text, k, k + Len(str) - 1) = str

(* C20: when the rationale generation fails for a company with valid       *)
(* statistics and sentiment, the callback still returns the company's      *)
(* recommendation, whose rationale is a non-empty sentence that mentions   *)
(* the sentiment score, and the response carries it.                       *)
C20_RationaleFailureKeepsCompany ==
  \A i \in 1..Len(call.valid) :
    (HasRun(i) /\ call.obs[i].rationale = "failed") =>
      /\ Succeeds(i)
      /\ Len(call.results[i].value.details.sentiment_rationale) > 0
      /\ Mentions(call.results[i].value.details.sentiment_rationale,
                  toFixed(call.results[i].value.details.components.sentiment_score))
      /\ call.pc = "resolved" =>
           /\ call.response.status = "success"
           /\ \E k \in 1..Len(call.response.recommendations) :
                call.response.recommendations[k] = call.results[i].value

C20_Witness ==
  /\ call.pc = "resolved"
  /\ \E i \in 1..Len(call.valid) :
       /\ call.obs[i].rationale = "failed" /\ Succeeds(i)
       /\ call.valid[i] = Str("AAPL")
       /\ Mentions(call.results[i].value.details.sentiment_rationale, "AAPL's sentiment score of")
       /\ call.response.recommendations[1] = call.results[i].value


-----------------------------------------------------------------------------
(* Claims about the calls, the steps and the fallback of one company's     *)
(* callback, checked under Spec                                            *)

(* C21, as stated: within one call, for each company, the article adapter, *)
(* the social-post adapter and the rationale generator are each called at  *)
(* most once; when one fails or returns nothing the callback goes on       *)
(* without calling it again.                                               *)
C21_SignalSourcesCalledOnce ==
  \A i \in 1..Len(call.valid) :
    HasRun(i) =>
      /\ call.obs[i].requests.fetchCompanyArticles <= 1
      /\ call.obs[i].requests.fetchCompanyTweets <= 1
      /\ call.obs[i].requests.generateSentimentRationale <= 1

(* The callbacks of the current call that have not returned *)
InFlight == {i \in 1..Len(call.valid) : call.pc = "pending" /\ call.results[i] = Pending}

(* C25, as stated: for a request of any number of symbols, at most 5       *)
(* company callbacks are in flight at a time: the symbols are processed in *)
(* chunks of 5, one chunk after the other.                                 *)
C25_BoundedFanOut == Cardinality(InFlight) <= 5

(* C29: when every provider and storage call returns or fails, every call *)
(* of getStockRecommendation resolves, and for each company fetchStockData *)
(* is called at most 3 times and the round of signal fetches is run at     *)
(* most 3 times, also when every call keeps failing or returning nothing.  *)
C29_ResolvesWithBoundedAttempts ==
  /\ [](\A i \in 1..Len(call.valid) :
          HasRun(i) => /\ call.obs[i].requests.fetchStockData <= 3
                       /\ call.obs[i].requests.rounds <= 3)
  /\ (call.pc = "pending") ~> (call.pc = "resolved")

(* C29's case: a call has resolved in which a company never got statistics *)
(* nor a signal: 3 calls of fetchStockData and 3 rounds                    *)
C29_Witness ==
  /\ call.pc = "resolved"
  /\ \E i \in 1..Len(call.valid) :
       /\ call.obs[i].requests.fetchStockData = 3 /\ call.obs[i].stock = NoObject
       /\ call.obs[i].requests.rounds = 3 /\ call.obs[i].nonEmpty = {}

(* The recommendation of company i was built by the neutral fallback *)
ByFallback(i) == Succeeds(i) /\ call.obs[i].steps = <<"fetch", "gate", "score">>

(* C22, as stated: a company scored through the neutral fallback gets the  *)
(* score of its statistics with sentiment_score = 50 under the weights of  *)
(* the horizon, 0.4/0.2/0.3/0.1 for short-term and 0.2/0.4/0.2/0.2         *)
(* otherwise: the weights of the normal path.                              *)
C22_FallbackUsesHorizonWeights ==
  \A i \in 1..Len(call.valid) :
    ByFallback(i) =>
      /\ call.results[i].value.details.components.sentiment_score = Whole(50)
      /\ RoundedToOneDecimal(StatedSum(call.results[i].value.details.components,
                                       call.horizon),
                             call.results[i].value.score)

(* The place of a step in the order fetch, gate, sentiment, score,         *)
(* rationale                                                               *)
StepRank(step) ==
  CASE step = "fetch" -> 1 [] step = "gate" -> 2 [] step = "sentiment" -> 3
    [] step = "score" -> 4 [] step = "rationale" -> 5

(* C24, as stated: the steps of one company's callback run in the order    *)
(* fetch, gate, sentiment analysis, composite score, rationale: the        *)
(* rationale generator is not called before the components and the score   *)
(* of the company are computed, and the analysis does not start before the *)
(* fetches have completed.                                                 *)
C24_StepOrder ==
  \A i \in 1..Len(call.valid) :
    HasRun(i) =>
      \A a, b \in 1..Len(call.obs[i].steps) :
        a < b => StepRank(call.obs[i].steps[a]) < StepRank(call.obs[i].steps[b])

(* C30, as stated: the sentiment aggregate of every recommendation has     *)
(* total >= 1 and positive + negative + neutral = total, in every          *)
(* revision, also when the classifier fails.                               *)
C30_SentimentCounted ==
  \A i \in 1..Len(call.valid) :
    Succeeds(i) =>
      /\ call.results[i].value.details.sentiment.total >= 1
      /\ call.results[i].value.details.sentiment.positive
           + call.results[i].value.details.sentiment.negative
           + call.results[i].value.details.sentiment.neutral
           = call.results[i].value.details.sentiment.total

-----------------------------------------------------------------------------
(* Claims about the lexicon, the chunks and the failed fetches, checked    *)
(* under SpecAdapter                                                       *)

(* The hits of a snippet in a word list *)
Hits(snippet, wordList) ==
  Cardinality({k \in 1..Len(snippet) : toLowerCase(snippet[k]) \in wordList})

(* positive_hits / (positive_hits + negative_hits), 1/2 without hits *)
SnippetScore(snippet) ==
  IF Hits(snippet, POSITIVE_WORDS) + Hits(snippet, NEGATIVE_WORDS) = 0
    THEN Frac(1, 2)
    ELSE Frac(Hits(snippet, POSITIVE_WORDS),
              Hits(snippet, POSITIVE_WORDS) + Hits(snippet, NEGATIVE_WORDS))

Bucket(snippet) ==
  IF Less(Frac(6, 10), SnippetScore(snippet)) THEN "positive"
  ELSE IF Less(SnippetScore(snippet), Frac(4, 10)) THEN "negative"
  ELSE "neutral"

InBucket(articles, bucket) ==
  Cardinality({k \in 1..Len(articles) : Bucket(articles[k]) = bucket})

RECURSIVE SumOfScores(_)
SumOfScores(articles) ==
  IF articles = <<>> THEN Whole(0)
  ELSE Plus(SnippetScore(Head(articles)), SumOfScores(Tail(articles)))

(* What the rule gives for each snippet list: the snippets per bucket and  *)
(* the mean of the snippets' scores                                        *)
StatedAggregates ==
  {<<a, [positive |-> InBucket(a, "positive"), negative |-> InBucket(a, "negative"),
         neutral |-> InBucket(a, "neutral"),
         score |-> IF a = <<>> THEN Whole(0) ELSE Over(SumOfScores(a), Whole(Len(a)))]>> :
     a \in SnippetLists}

StatedAggregate(articles) ==
  LET Second(entry) == entry[2] IN Second(CHOOSE e \in StatedAggregates : e[1] = articles)

(* The call computed the aggregate of a non-empty list on a cache miss *)
ComputedByLexicon(f) ==
  f.adapter = "analyzeArticles" /\ f.pc = "done" /\ f.from = "lexicon" /\ Len(f.articles) > 0

(* C23: the aggregate the lexicon computes for a non-empty snippet list on *)
(* a cache miss counts each snippet in exactly one bucket, positive when   *)
(* its ratio of positive hits is above 0.6, negative when below 0.4, else  *)
(* neutral, so the buckets add up to total = the number of snippets; its   *)
(* score is the mean of the snippets' scores and lies in [0, 1].           *)
C23_LexiconAggregation ==
  \A i \in 1..Len(fetches) :
    ComputedByLexicon(fetches[i]) =>
      /\ fetches[i].value.positive = StatedAggregate(fetches[i].articles).positive
      /\ fetches[i].value.negative = StatedAggregate(fetches[i].articles).negative
      /\ fetches[i].value.neutral = StatedAggregate(fetches[i].articles).neutral
      /\ fetches[i].value.total = Len(fetches[i].articles)
      /\ fetches[i].value.positive + fetches[i].value.negative + fetches[i].value.neutral
           = fetches[i].value.total
      /\ fetches[i].value.score = StatedAggregate(fetches[i].articles).score
      /\ ~Less(fetches[i].value.score, Whole(0)) /\ ~Less(Whole(1), fetches[i].value.score)

(* C23's case: an aggregate with every bucket filled, two of the neutral   *)
(* snippets on the thresholds and one without hits                         *)
C23_Witness ==
  \E i \in 1..Len(fetches) :
    /\ ComputedByLexicon(fetches[i])
    /\ fetches[i].value.positive = 1 /\ fetches[i].value.negative = 1
    /\ fetches[i].value.neutral = 3
    /\ Len(fetches[i].articles) = 5
    /\ fetches[i].articles[2] = <<"gain", "gain", "gain", "loss", "loss">>
    /\ fetches[i].articles[4] = <<"No", "comment">>
    /\ fetches[i].articles[5] = <<"loss", "loss", "loss", "gain", "gain">>

(* The adapter returned null or [] from an error path: the request failed, *)
(* or the payload was invalid, or it had fewer than 5 closes               *)
FetchFailed(f) ==
  /\ IsAdapter(f) /\ f.pc = "done" /\ f.from = "network"
  /\ f.failed \/ (f.adapter = "fetchStockData" /\ f.value = NoObject)

Classified(f) == f.adapter = "analyzeSentiment" /\ f.pc = "done"

(* The words of the texts, in order *)
RECURSIVE WordsOf(_)
WordsOf(texts) == IF texts = <<>> THEN <<>> ELSE Head(texts) \o WordsOf(Tail(texts))

(* The words of the articles that are not blank, without the padding *)
RECURSIVE TrimmedWords(_)
TrimmedWords(articles) ==
  IF articles = <<>> THEN <<>>
  ELSE SelectSeq(Head(articles), LAMBDA w : w # "") \o TrimmedWords(Tail(articles))

(* C26, as stated: every chunk sent to the classification endpoint is      *)
(* non-empty and at most 450 characters long, for every list of articles,  *)
(* and the chunks in order hold every non-blank trimmed article once, in   *)
(* input order.                                                            *)
C26_ChunksBounded ==
  \A i \in 1..Len(fetches) :
    Classified(fetches[i]) =>
      /\ \A k \in 1..Len(fetches[i].chunks) :
           /\ TextLength(fetches[i].chunks[k]) > 0
           /\ TextLength(fetches[i].chunks[k]) <= 450
      /\ WordsOf(fetches[i].chunks) = TrimmedWords(fetches[i].articles)


-----------------------------------------------------------------------------
(* A claim about interleaved cache calls, checked under SpecCache          *)

(* C27, as stated: with getCache and storeCache calls on one key           *)
(* interleaved at their awaits, getCache never removes an entry whose age  *)
(* is at most CACHE_TTL at the moment of the removal, so a value stored    *)
(* while a getCache of the key is in progress is still there when both     *)
(* have completed.                                                         *)
C27_NoFreshEntryRemoved ==
  [][\A p \in Callers :
       (/\ calls[p].op = "getCache" /\ calls[p].pc = "removeItem"
        /\ storage'[calls[p].key] # storage[calls[p].key])
         => ~(/\ IsStoredEntry(storage[calls[p].key])
              /\ AgeOf(storage[calls[p].key]) <= CACHE_TTL)]_vars

=============================================================================
